---- MODULE Spec2Model ----
(***************************************************************************)
(* HealthPulse data processor (backend/data_processing/processor.py) and   *)
(* the gateway's alert update (backend/api_gateway/main.py).               *)
(*                                                                         *)
(* The relational store is modelled table by table.  A table written with  *)
(* a plain INSERT is a sequence of rows (the position is the serial id);   *)
(* a table written with ON CONFLICT (key) DO NOTHING or looked up by key   *)
(* before writing is a set or a function.  The time-series store is a set  *)
(* of points; a point with the series and time of an existing point takes  *)
(* its place.  Time is counted in whole hours.                             *)
(***************************************************************************)
EXTENDS Integers, Sequences, FiniteSets, TLC

VARIABLES
    patients,        \* table patients: sequence of rows
    diagnoses,       \* table diagnoses: set of rows, one per (patient_id, diagnosis)
    comorbidities,   \* table comorbidities: set of rows, one per (patient_id, condition)
    risk_scores,     \* table risk_scores: sequence of rows
    vitals,          \* table vitals: sequence of rows
    lab_results,     \* table lab_results: sequence of rows
    medications,     \* table medications: sequence of rows
    alerts,          \* table alerts: sequence of rows (index = id)
    system_settings, \* the rows of system_settings with key 'alert_thresholds'
    influx,          \* the time-series bucket: set of points
    now,             \* wall clock, in hours
    handled,         \* number of messages handed to a handler so far
    requests,        \* number of gateway and administrator requests served so far
    pc,              \* where the process is: "connect_db", "connect_influx",
                     \* "subscribe", "poll", "handle", "sleep", "stopped" or "exited"
    cur,             \* the consumer run() is at, as an index of Topics
    batch,           \* the records of the polled batch not yet handled, by offset
    position,        \* per consumer: records returned by poll() so far
    committed,       \* per consumer: the committed position
    results,         \* per consumer: how the handler ended for each record handled
    consumers,       \* self.consumers: the streams that have a consumer
    exit_code,       \* the exit status of the process, NULL while it runs
    inflight,        \* per processor instance: the alert row generate_alert is
                     \* about to insert, its dedup query done, or Idle
    last             \* what the last step did (history, read by the properties)

storeVars == <<patients, diagnoses, comorbidities, risk_scores, vitals,
               lab_results, medications, alerts, system_settings, influx>>

vars == <<patients, diagnoses, comorbidities, risk_scores, vitals,
          lab_results, medications, alerts, system_settings, influx,
          now, handled, requests, pc, cur, batch, position, committed, results,
          consumers, exit_code, inflight, last>>

loopVars == <<pc, cur, batch, position, committed, results, consumers, exit_code,
             inflight>>

----------------------------------------------------------------------------
(* Bounds of the model *)

MaxMsgs == 3
MaxRiskMsgs == 2
MaxLabMsgs == 2
MaxLoopMsgs == 3
MaxBatch == 2
MaxRequests == 1
MaxTime == 5

(* Values *)

NULL == -1
None == "None"

Patients == {"P1", "P2"}
Stamps == {1, 2}
Times == 0..MaxTime
BOOL == {TRUE, FALSE}

\* dict.get(key) with a default
Get(d, k, default) == IF k \in DOMAIN d THEN d[k] ELSE default

\* Python truthiness of a string, and of a timestamp, taken with .get()
Truthy(v) == v # None /\ v # ""

TruthyTime(v) == v # NULL

\* how a handler ended: the message was skipped as incomplete, the relational
\* write raised, the time-series write raised, or everything was written
Outcome(complete, dbFail, tsFail) ==
    IF ~complete THEN "skipped"
    ELSE IF dbFail THEN "db_error"
    ELSE IF tsFail THEN "ts_error"
    ELSE "ok"

----------------------------------------------------------------------------
(* Time-series store *)

\* two points of one series at one time are one point: the later write wins
SameSeries(a, b) == a.measurement = b.measurement /\ a.tags = b.tags /\ a.time = b.time

influx_write(bucket, point) == {q \in bucket : ~SameSeries(q, point)} \cup {point}

----------------------------------------------------------------------------
(* Medication events *)

MedNames == {"aspirin"}
Dosages == {"10mg", "20mg"}

MedDicts ==
    [name : MedNames, dosage : Dosages, frequency : {"daily"}, route : {"oral"}]
    \cup [name : MedNames, dosage : Dosages, frequency : {"daily"}, route : {"oral"},
          start_date : Stamps]

AspirinDict == [name |-> "aspirin", dosage |-> "10mg", frequency |-> "daily", route |-> "oral"]

\* the events of patient P1 in every shape, one event of another patient, an
\* event with an action tag the handler does not know, and incomplete events
MedMsgs ==
    [patient_id : {"P1"}, timestamp : Stamps, action : {"add", "discontinue"},
     medication : MedDicts]
    \cup [patient_id : {"P1"}, timestamp : Stamps, action : {"change_dose"},
          medication : MedDicts, old_dosage : Dosages]
    \cup [patient_id : {"P1"}, timestamp : Stamps, action : {"change_dose"},
          medication : {AspirinDict}]
    \cup [patient_id : {"P2"}, timestamp : {1}, action : {"add"}, medication : {AspirinDict}]
    \cup [patient_id : {"P1"}, timestamp : {1}, action : {"hold"}, medication : {AspirinDict}]
    \cup [patient_id : {"P1"}, timestamp : {1}, action : {"add"}]
    \cup [patient_id : {"P1"}, action : {"add"}, medication : {AspirinDict}]
    \cup [timestamp : {1}, action : {"add"}, medication : {AspirinDict}]
    \cup [patient_id : {"P1"}, timestamp : {1}, medication : {AspirinDict}]

MedRow(patient_id, m, start_date) ==
    [patient_id |-> patient_id, name |-> m.name, dosage |-> m.dosage,
     frequency |-> m.frequency, route |-> m.route,
     start_date |-> start_date, end_date |-> NULL]

\* UPDATE medications SET end_date = :end_date WHERE <match> AND end_date IS NULL
CloseRows(table, matching, end_date) ==
    [i \in DOMAIN table |->
        IF i \in matching /\ table[i].end_date = NULL
        THEN [table[i] EXCEPT !.end_date = end_date]
        ELSE table[i]]

\* the statements of the transaction, by action tag
MedAdd(table, patient_id, timestamp, m) ==
    LET sd == Get(m, "start_date", NULL)
    IN  Append(table, MedRow(patient_id, m, IF TruthyTime(sd) THEN sd ELSE timestamp))

MedDiscontinue(table, patient_id, timestamp, m) ==
    LET sd == Get(m, "start_date", NULL)
        match(r) == /\ r.patient_id = patient_id
                    /\ r.name = m.name
                    /\ sd # NULL /\ r.start_date = sd
    IN  CloseRows(table, {i \in DOMAIN table : match(table[i])}, timestamp)

MedChangeDose(table, patient_id, timestamp, m, old_dosage) ==
    LET match(r) == /\ r.patient_id = patient_id
                    /\ r.name = m.name
                    /\ old_dosage # None /\ r.dosage = old_dosage
    IN  Append(CloseRows(table, {i \in DOMAIN table : match(table[i])}, timestamp), MedRow(patient_id, m, timestamp))

MedApply(table, msg) ==
    LET m == msg.medication
        action == Get(msg, "action", None)
    IN  CASE action = "add" ->
               MedAdd(table, msg.patient_id, msg.timestamp, m)
          [] action = "discontinue" ->
               MedDiscontinue(table, msg.patient_id, msg.timestamp, m)
          [] action = "change_dose" ->
               MedChangeDose(table, msg.patient_id, msg.timestamp, m,
                             Get(msg, "old_dosage", None))
          [] OTHER -> table

MedPoint(msg) ==
    [measurement |-> "medication_events",
     tags |-> [patient_id |-> msg.patient_id, action |-> Get(msg, "action", None),
               name |-> msg.medication.name],
     fields |-> [dosage |-> msg.medication.dosage, route |-> msg.medication.route],
     time |-> msg.timestamp]

\* variant: the action tag is not asked for
MedComplete_NoAction(msg) ==
    /\ Truthy(Get(msg, "patient_id", None))
    /\ TruthyTime(Get(msg, "timestamp", NULL))
    /\ "medication" \in DOMAIN msg

\* not patient_id or not timestamp or not action or not medication
MedComplete(msg) ==
    /\ Truthy(Get(msg, "patient_id", None))
    /\ TruthyTime(Get(msg, "timestamp", NULL))
    /\ Truthy(Get(msg, "action", None))
    /\ "medication" \in DOMAIN msg

\* DataProcessor.process_medication: dbFail is an error raised by the
\* relational store inside the transaction, tsFail one raised by the
\* time-series write
process_medication(msg, dbFail, tsFail) ==
    /\ medications' = IF MedComplete(msg) /\ ~dbFail
                      THEN MedApply(medications, msg) ELSE medications
    /\ influx' = IF MedComplete(msg) /\ ~dbFail /\ ~tsFail
                 THEN influx_write(influx, MedPoint(msg)) ELSE influx
    /\ last' = [op |-> "process_medication", msg |-> msg,
                outcome |-> Outcome(MedComplete(msg), dbFail, tsFail)]
    /\ UNCHANGED <<patients, diagnoses, comorbidities, risk_scores, vitals,
                   lab_results, alerts, system_settings>>

----------------------------------------------------------------------------
(* Alert engine.  Scores and thresholds are counted in hundredths; a stored *)
(* risk_score is the fraction <<numerator, denominator>>.                   *)

DEDUP_HOURS == 4

RiskTypes == <<"deterioration", "readmission", "sepsis">>

\* variant: the sepsis defaults are those of deterioration
ALERT_THRESHOLDS_Shifted ==
    [deterioration |-> [high |-> 70, medium |-> 40],
     readmission |-> [high |-> 80, medium |-> 50],
     sepsis |-> [high |-> 70, medium |-> 40]]

ALERT_THRESHOLDS ==
    [deterioration |-> [high |-> 70, medium |-> 40],
     readmission |-> [high |-> 80, medium |-> 50],
     sepsis |-> [high |-> 60, medium |-> 30]]

\* variant: the cutoff itself counts as recent (timestamp >= :cutoff_time)
RecentSimilar_Inclusive(table, patient_id, risk_type, timestamp) ==
    {i \in DOMAIN table :
        /\ table[i].patient_id = patient_id
        /\ table[i].risk_type = risk_type
        /\ table[i].status = "active"
        /\ table[i].timestamp >= timestamp - DEDUP_HOURS}

\* variant: the lookback is half as long
RecentSimilar_HalfWindow(table, patient_id, risk_type, timestamp) ==
    {i \in DOMAIN table :
        /\ table[i].patient_id = patient_id
        /\ table[i].risk_type = risk_type
        /\ table[i].status = "active"
        /\ table[i].timestamp > timestamp - 2}

\* variant: an alert of any status counts as recent
RecentSimilar_AnyStatus(table, patient_id, risk_type, timestamp) ==
    {i \in DOMAIN table :
        /\ table[i].patient_id = patient_id
        /\ table[i].risk_type = risk_type
        /\ table[i].timestamp > timestamp - DEDUP_HOURS}

\* SELECT id FROM alerts WHERE patient_id = .. AND risk_type = .. AND
\* status = 'active' AND timestamp > :cutoff_time
RecentSimilar(table, patient_id, risk_type, timestamp) ==
    {i \in DOMAIN table :
        /\ table[i].patient_id = patient_id
        /\ table[i].risk_type = risk_type
        /\ table[i].status = "active"
        /\ table[i].timestamp > timestamp - DEDUP_HOURS}

DefaultMessage(risk_type, risk_score) ==
    CASE risk_type = "deterioration" ->
           <<"High risk of clinical deterioration detected", risk_score>>
      [] risk_type = "readmission" -> <<"High risk of readmission detected", risk_score>>
      [] risk_type = "sepsis" -> <<"High risk of sepsis detected", risk_score>>
      [] OTHER -> <<"Elevated risk detected", risk_type, risk_score>>

DefaultAction(risk_type) ==
    CASE risk_type = "deterioration" -> "Review patient condition and vital signs"
      [] risk_type = "readmission" -> "Review discharge planning and follow-up care"
      [] risk_type = "sepsis" -> "Assess for signs of infection and sepsis criteria"
      [] OTHER -> "Clinical review recommended"

\* variant: a recent similar alert is marked resolved and the new one inserted
generate_alert_Supersede(table, patient_id, risk_type, risk_score, priority, timestamp, message, recommended_action, fail) ==
    IF fail THEN table
    ELSE Append([i \in DOMAIN table |->
                    IF i \in RecentSimilar(table, patient_id, risk_type, timestamp)
                    THEN [table[i] EXCEPT !.status = "resolved"] ELSE table[i]],
                [patient_id |-> patient_id, timestamp |-> timestamp,
                 risk_type |-> risk_type, risk_score |-> risk_score,
                 priority |-> priority, message |-> message,
                 recommended_action |-> recommended_action, status |-> "active"])

\* variant: a recent similar alert takes the priority and score of the new event
generate_alert_Escalate(table, patient_id, risk_type, risk_score, priority, timestamp, message, recommended_action, fail) ==
    IF fail THEN table
    ELSE IF RecentSimilar(table, patient_id, risk_type, timestamp) # {}
    THEN [i \in DOMAIN table |->
             IF i \in RecentSimilar(table, patient_id, risk_type, timestamp)
             THEN [table[i] EXCEPT !.priority = priority, !.risk_score = risk_score]
             ELSE table[i]]
    ELSE Append(table,
           [patient_id |-> patient_id, timestamp |-> timestamp,
            risk_type |-> risk_type, risk_score |-> risk_score,
            priority |-> priority,
            message |-> IF message = <<>>
                        THEN DefaultMessage(risk_type, risk_score) ELSE message,
            recommended_action |-> IF recommended_action = None
                                   THEN DefaultAction(risk_type)
                                   ELSE recommended_action,
            status |-> "active"])

\* DataProcessor.generate_alert: the alerts table afterwards.  message and
\* recommended_action are None when the caller passes none; fail is a store
\* error in the dedup query or in the insert
generate_alert(table, patient_id, risk_type, risk_score, priority, timestamp, message, recommended_action, fail) ==
    IF fail \/ RecentSimilar(table, patient_id, risk_type, timestamp) # {}
    THEN table
    ELSE Append(table,
           [patient_id |-> patient_id, timestamp |-> timestamp,
            risk_type |-> risk_type, risk_score |-> risk_score,
            priority |-> priority,
            message |-> IF message = <<>>
                        THEN DefaultMessage(risk_type, risk_score) ELSE message,
            recommended_action |-> IF recommended_action = None
                                   THEN DefaultAction(risk_type)
                                   ELSE recommended_action,
            status |-> "active"])

\* variant: the policy is the one the process started with
LoadThresholds_AtStartup(settings) == ALERT_THRESHOLDS

\* the policy check_risk_alerts loads: the stored one, else the built-in one
LoadThresholds(settings) ==
    IF settings # {} THEN CHOOSE t \in settings : TRUE ELSE ALERT_THRESHOLDS

\* variant: a score equal to a threshold does not reach its tier
Tier_Strict(risk_value, th) ==
    IF risk_value > th.high THEN "high"
    ELSE IF risk_value > th.medium THEN "medium"
    ELSE "none"

\* the tier of a score under the thresholds of its risk type
Tier(risk_value, th) ==
    IF risk_value >= th.high THEN "high"
    ELSE IF risk_value >= th.medium THEN "medium"
    ELSE "none"

\* the candidate priority check_risk_alerts finds for one risk type
Candidate(thresholds, risk_scores_block, risk_type) ==
    IF risk_type \in DOMAIN thresholds
    THEN Tier(Get(risk_scores_block, risk_type, 0), thresholds[risk_type])
    ELSE "none"

\* one turn of the loop of check_risk_alerts
CheckOne(table, thresholds, patient_id, block, risk_type, timestamp, failing) ==
    LET c == Candidate(thresholds, block, risk_type)
    IN  IF c = "none" THEN table
        ELSE generate_alert(table, patient_id, risk_type,
                            <<Get(block, risk_type, 0), 100>>, c, timestamp,
                            <<>>, None, risk_type \in failing)

\* variant: the loop ends after its first turn
CheckFrom_FirstOnly(k, table, thresholds, patient_id, block, timestamp, failing) ==
    CheckOne(table, thresholds, patient_id, block, RiskTypes[k], timestamp, failing)

RECURSIVE CheckFrom(_, _, _, _, _, _, _)
CheckFrom(k, table, thresholds, patient_id, block, timestamp, failing) ==
    IF k > Len(RiskTypes) THEN table
    ELSE CheckFrom(k + 1,
                   CheckOne(table, thresholds, patient_id, block, RiskTypes[k],
                            timestamp, failing),
                   thresholds, patient_id, block, timestamp, failing)

\* DataProcessor.check_risk_alerts: the alerts table afterwards.  readFail is
\* a store error while the thresholds are read; failing holds the risk types
\* whose generate_alert meets a store error
check_risk_alerts(table, settings, patient_id, block, timestamp, readFail, failing) ==
    IF readFail THEN table
    ELSE CheckFrom(1, table, LoadThresholds(settings), patient_id, block,
                   timestamp, failing)

----------------------------------------------------------------------------
(* Patient snapshots *)

Columns == {"mrn", "name", "gender", "age", "department", "room",
            "admission_date", "attending_physician"}

\* the row process_patient_data builds from a message: an absent attribute
\* is None
patient_record(patient_data) ==
    [c \in Columns \cup {"patient_id"} |-> Get(patient_data, c, None)]

HasPatient(table, patient_id) ==
    \E i \in DOMAIN table : table[i].patient_id = patient_id

\* variant: the row is inserted without the lookup
upsert_patient_InsertOnly(table, record, fail) ==
    IF fail THEN table ELSE Append(table, record)

\* DataProcessor.upsert_patient: the patients table afterwards
upsert_patient(table, record, fail) ==
    IF fail THEN table
    ELSE IF HasPatient(table, record.patient_id)
    THEN [i \in DOMAIN table |->
            IF table[i].patient_id = record.patient_id THEN record ELSE table[i]]
    ELSE Append(table, record)

Range(seq) == {seq[i] : i \in DOMAIN seq}

\* variant: each statement commits on its own, and the first INSERT fails
process_diagnoses_Autocommit(table, patient_id, list, clock, fail) ==
    IF list = <<>> THEN table
    ELSE IF fail THEN {r \in table : r.patient_id # patient_id}
    ELSE {r \in table : r.patient_id # patient_id}
         \cup {[patient_id |-> patient_id, diagnosis |-> d, diagnosis_date |-> clock] :
                 d \in Range(list)}

\* DataProcessor.process_diagnoses: the diagnoses table afterwards.  The
\* table has one row for a (patient_id, diagnosis): ON CONFLICT DO NOTHING
process_diagnoses(table, patient_id, list, clock, fail) ==
    IF list = <<>> \/ fail THEN table
    ELSE {r \in table : r.patient_id # patient_id}
         \cup {[patient_id |-> patient_id, diagnosis |-> d, diagnosis_date |-> clock] :
                 d \in Range(list)}

\* DataProcessor.process_comorbidities: the comorbidities table afterwards
process_comorbidities(table, patient_id, list, fail) ==
    IF list = <<>> \/ fail THEN table
    ELSE {r \in table : r.patient_id # patient_id}
         \cup {[patient_id |-> patient_id, condition |-> c] : c \in Range(list)}

RECURSIVE InsertMeds(_, _, _)
InsertMeds(table, patient_id, meds) ==
    IF meds = <<>> THEN table
    ELSE InsertMeds(Append(table,
                        MedRow(patient_id, Head(meds), Get(Head(meds), "start_date", NULL))),
                    patient_id, Tail(meds))

\* DataProcessor.process_all_medications: the medications table afterwards
process_all_medications(table, patient_id, meds, clock, fail) ==
    IF meds = <<>> \/ fail THEN table
    ELSE LET match(r) == r.patient_id = patient_id
         IN  InsertMeds(CloseRows(table, {i \in DOMAIN table : match(table[i])}, clock), patient_id, meds)

RiskRow(patient_id, block, timestamp) ==
    [patient_id |-> patient_id, timestamp |-> timestamp,
     deterioration_risk |-> Get(block, "deterioration", 0),
     readmission_risk |-> Get(block, "readmission", 0),
     sepsis_risk |-> Get(block, "sepsis", 0)]

RiskPoint(patient_id, block, timestamp) ==
    [measurement |-> "risk_scores",
     tags |-> [patient_id |-> patient_id],
     fields |-> [deterioration |-> Get(block, "deterioration", 0),
                 readmission |-> Get(block, "readmission", 0),
                 sepsis |-> Get(block, "sepsis", 0)],
     time |-> timestamp]

EmptyBlock == [k \in {} |-> 0]

\* the store calls of one snapshot that may raise: none, or one of them
NoFault == [upsert |-> FALSE, diagnoses |-> FALSE, comorbidities |-> FALSE,
            risk_db |-> FALSE, risk_ts |-> FALSE, thresholds |-> FALSE,
            alert |-> {}, medications |-> FALSE]

Faults ==
    {NoFault,
     [NoFault EXCEPT !.upsert = TRUE],
     [NoFault EXCEPT !.diagnoses = TRUE],
     [NoFault EXCEPT !.comorbidities = TRUE],
     [NoFault EXCEPT !.risk_db = TRUE],
     [NoFault EXCEPT !.risk_ts = TRUE],
     [NoFault EXCEPT !.thresholds = TRUE],
     [NoFault EXCEPT !.alert = {"deterioration"}],
     [NoFault EXCEPT !.alert = {"sepsis"}],
     [NoFault EXCEPT !.medications = TRUE]}

\* what process_risk_scores reaches: nothing for an empty block, the
\* relational insert, the time-series write, the alert check
RiskReached(block, f) ==
    IF DOMAIN block = {} THEN "nothing"
    ELSE IF f.risk_db THEN "db_error"
    ELSE IF f.risk_ts THEN "ts_error"
    ELSE "checked"

\* DataProcessor.process_patient_data, with its timestamp read from the
\* clock; f says which store call of the handler raises
process_patient_data(msg, f, clock) ==
    LET pid == Get(msg, "patient_id", None)
        ok == Truthy(pid)
        block == Get(msg, "risk_scores", EmptyBlock)
        reached == IF ok /\ "risk_scores" \in DOMAIN msg
                   THEN RiskReached(block, f) ELSE "nothing"
    IN  /\ patients' = IF ok THEN upsert_patient(patients, patient_record(msg), f.upsert)
                       ELSE patients
        /\ diagnoses' = IF ok /\ "diagnoses" \in DOMAIN msg
                        THEN process_diagnoses(diagnoses, pid, msg.diagnoses, clock,
                                               f.diagnoses)
                        ELSE diagnoses
        /\ comorbidities' = IF ok /\ "comorbidities" \in DOMAIN msg
                            THEN process_comorbidities(comorbidities, pid,
                                                       msg.comorbidities, f.comorbidities)
                            ELSE comorbidities
        /\ risk_scores' = IF reached \in {"ts_error", "checked"}
                          THEN Append(risk_scores, RiskRow(pid, block, clock))
                          ELSE risk_scores
        /\ influx' = IF reached = "checked"
                     THEN influx_write(influx, RiskPoint(pid, block, clock))
                     ELSE influx
        /\ alerts' = IF reached = "checked"
                     THEN check_risk_alerts(alerts, system_settings, pid, block, clock,
                                            f.thresholds, f.alert)
                     ELSE alerts
        /\ medications' = IF ok /\ "medications" \in DOMAIN msg
                          THEN process_all_medications(medications, pid, msg.medications,
                                                       clock, f.medications)
                          ELSE medications
        /\ last' = [op |-> "process_patient_data", msg |-> msg, f |-> f,
                    timestamp |-> clock, skipped |-> ~ok, risk |-> reached,
                    outcome |-> Outcome(ok, f # NoFault /\ ~f.risk_ts, f.risk_ts)]
        /\ UNCHANGED <<vitals, lab_results, system_settings>>

\* the store calls the handler makes for this message
Applies(msg, f) ==
    /\ f.diagnoses => "diagnoses" \in DOMAIN msg /\ msg.diagnoses # <<>>
    /\ f.comorbidities => "comorbidities" \in DOMAIN msg /\ msg.comorbidities # <<>>
    /\ f.medications => "medications" \in DOMAIN msg /\ msg.medications # <<>>
    /\ (f.risk_db \/ f.risk_ts \/ f.thresholds \/ f.alert # {}) =>
          "risk_scores" \in DOMAIN msg /\ DOMAIN msg.risk_scores # {}
    /\ \A rt \in f.alert :
          Candidate(LoadThresholds(system_settings), msg.risk_scores, rt) # "none"

(* Snapshot messages: demographics, sets and medication lists *)

DemoA == [mrn |-> "M1", name |-> "Ann", gender |-> "F", age |-> "61",
          department |-> "ICU", room |-> "101", admission_date |-> "d1",
          attending_physician |-> "Dr A"]

DemoB == [mrn |-> "M1", name |-> "Ann B", gender |-> "F", age |-> "62",
          department |-> "Cardiology", room |-> "202", admission_date |-> "d1",
          attending_physician |-> "Dr B"]

With(d, k, v) == [x \in DOMAIN d \cup {k} |-> IF x = k THEN v ELSE d[x]]

Pid(d, p) == With(d, "patient_id", p)

HeparinDict == [name |-> "heparin", dosage |-> "20mg", frequency |-> "daily",
                route |-> "IV", start_date |-> 1]

SnapMsgs ==
    {Pid(DemoA, "P1"), Pid(DemoB, "P1"), Pid(DemoA, "P2"),
     Pid([name |-> "Ann"], "P1"), DemoA}
    \cup {With(Pid(DemoA, "P1"), "diagnoses", l) :
            l \in {<<>>, <<"flu">>, <<"flu", "copd">>, <<"copd", "copd">>}}
    \cup {With(Pid(DemoA, "P2"), "diagnoses", <<"flu">>)}
    \cup {With(Pid(DemoA, "P1"), "comorbidities", l) :
            l \in {<<>>, <<"diabetes">>, <<"asthma", "diabetes">>}}
    \cup {With(Pid(DemoA, "P2"), "comorbidities", <<"asthma">>)}
    \cup {With(Pid(DemoA, "P1"), "medications", l) :
            l \in {<<>>, <<AspirinDict>>, <<HeparinDict>>, <<AspirinDict, HeparinDict>>,
                   <<AspirinDict, AspirinDict>>}}
    \cup {With(Pid(DemoA, "P2"), "medications", <<AspirinDict>>)}
    \cup {With(With(Pid(DemoB, "P1"), "diagnoses", <<"flu">>), "comorbidities", <<"asthma">>)}

(* Snapshot messages that carry a risk-score block *)

ScoreBlocks ==
    {[sepsis |-> 75], [sepsis |-> 45], [sepsis |-> 20],
     [deterioration |-> 70, readmission |-> 50, sepsis |-> 65]}

RiskMsgs ==
    {With([patient_id |-> "P1"], "risk_scores", b) : b \in ScoreBlocks}
    \cup {[patient_id |-> "P2", risk_scores |-> [sepsis |-> 65]]}

(* Snapshot messages for the tiers: every score around the cut points *)

TierScores == {20, 29, 30, 45, 49, 50, 59, 60, 75}

TierMsgs ==
    {[patient_id |-> "P1", risk_scores |-> [sepsis |-> v]] : v \in TierScores}
    \cup {[patient_id |-> "P1",
           risk_scores |-> [deterioration |-> d[1], readmission |-> d[2], sepsis |-> 10]] :
             d \in {<<39, 80>>, <<40, 79>>, <<69, 50>>, <<70, 49>>}}
    \cup {[patient_id |-> "P2", risk_scores |-> [sepsis |-> 75]],
          [patient_id |-> "P1", risk_scores |-> EmptyBlock],
          [risk_scores |-> [sepsis |-> 75]]}

----------------------------------------------------------------------------
(* Vitals *)

VitalColumns == {"heart_rate", "systolic_bp", "diastolic_bp", "temperature",
                 "respiration_rate", "o2_saturation", "pain_level"}

VitalsRow(vitals_data) ==
    [c \in VitalColumns \cup {"patient_id", "timestamp"} |-> Get(vitals_data, c, NULL)]

VitalsPoint(vitals_data) ==
    [measurement |-> "vitals",
     tags |-> [patient_id |-> vitals_data.patient_id],
     fields |-> [c \in VitalColumns |->
                   Get(vitals_data, c, IF c = "pain_level" THEN 0 ELSE NULL)],
     time |-> vitals_data.timestamp]

TimedComplete(msg) ==
    /\ Truthy(Get(msg, "patient_id", None))
    /\ TruthyTime(Get(msg, "timestamp", NULL))

\* variant: a failed time-series write takes the relational row back
process_vitals_Rollback(msg, dbFail, tsFail) ==
    /\ vitals' = IF TimedComplete(msg) /\ ~dbFail /\ ~tsFail
                 THEN Append(vitals, VitalsRow(msg)) ELSE vitals
    /\ influx' = IF TimedComplete(msg) /\ ~dbFail /\ ~tsFail
                 THEN influx_write(influx, VitalsPoint(msg)) ELSE influx
    /\ last' = [op |-> "process_vitals", msg |-> msg,
                outcome |-> Outcome(TimedComplete(msg), dbFail, tsFail)]
    /\ UNCHANGED <<patients, diagnoses, comorbidities, risk_scores, lab_results,
                   medications, alerts, system_settings>>

\* DataProcessor.process_vitals
process_vitals(msg, dbFail, tsFail) ==
    /\ vitals' = IF TimedComplete(msg) /\ ~dbFail
                 THEN Append(vitals, VitalsRow(msg)) ELSE vitals
    /\ influx' = IF TimedComplete(msg) /\ ~dbFail /\ ~tsFail
                 THEN influx_write(influx, VitalsPoint(msg)) ELSE influx
    /\ last' = [op |-> "process_vitals", msg |-> msg,
                outcome |-> Outcome(TimedComplete(msg), dbFail, tsFail)]
    /\ UNCHANGED <<patients, diagnoses, comorbidities, risk_scores, lab_results,
                   medications, alerts, system_settings>>

Septic == [heart_rate |-> 130, systolic_bp |-> 90, diastolic_bp |-> 60,
           temperature |-> 39, respiration_rate |-> 26, o2_saturation |-> 88,
           pain_level |-> 4]

Calm == [heart_rate |-> 70, systolic_bp |-> 120, diastolic_bp |-> 80,
         temperature |-> 37, respiration_rate |-> 14, o2_saturation |-> 98]

At(d, p, t) == With(With(d, "patient_id", p), "timestamp", t)

VitalsMsgs ==
    {At(d, p, t) : d \in {Septic, Calm}, p \in Patients, t \in Stamps}
    \cup {With(Septic, "patient_id", "P1"), With(Septic, "timestamp", 1)}

----------------------------------------------------------------------------
(* Lab results *)

\* variant: a value on a bound of the range counts as abnormal
IsAbnormal_BoundsOut(lab_data) ==
    LET normal_min == Get(lab_data, "normal_min", NULL)
        normal_max == Get(lab_data, "normal_max", NULL)
        value == Get(lab_data, "value", NULL)
    IN  /\ normal_min # NULL /\ normal_max # NULL /\ value # NULL
        /\ (value <= normal_min \/ value >= normal_max)

\* value < normal_min or value > normal_max, when all three are given
IsAbnormal(lab_data) ==
    LET normal_min == Get(lab_data, "normal_min", NULL)
        normal_max == Get(lab_data, "normal_max", NULL)
        value == Get(lab_data, "value", NULL)
    IN  /\ normal_min # NULL /\ normal_max # NULL /\ value # NULL
        /\ (value < normal_min \/ value > normal_max)

LabRow(lab_data) ==
    [patient_id |-> lab_data.patient_id, timestamp |-> lab_data.timestamp,
     test_name |-> Get(lab_data, "test_name", None),
     value |-> Get(lab_data, "value", NULL), unit |-> Get(lab_data, "unit", None),
     normal_min |-> Get(lab_data, "normal_min", NULL),
     normal_max |-> Get(lab_data, "normal_max", NULL),
     is_abnormal |-> IsAbnormal(lab_data)]

LabPoint(lab_data) ==
    [measurement |-> "labs",
     tags |-> [patient_id |-> lab_data.patient_id,
               test_name |-> Get(lab_data, "test_name", None)],
     fields |-> [value |-> Get(lab_data, "value", NULL),
                 is_abnormal |-> IF IsAbnormal(lab_data) THEN 1 ELSE 0],
     time |-> lab_data.timestamp]

\* variant: the test name is taken as it is written
Lower_AsWritten(name) == name

\* str.lower() on the test names of the model
Lower(name) ==
    CASE name \in {"Glucose", "GLUCOSE"} -> "glucose"
      [] name = "WBC" -> "wbc"
      [] OTHER -> name

\* variant: a zero-width range is divided by as it is
Deviation_NoZeroWidth(value, normal_min, normal_max) ==
    LET normal_range == normal_max - normal_min
    IN  IF value < normal_min THEN <<normal_min - value, normal_range>>
        ELSE IF value > normal_max THEN <<value - normal_max, normal_range>>
        ELSE <<0, normal_range>>

\* the deviation check_lab_alert computes, as the fraction <<distance, width>>
Deviation(value, normal_min, normal_max) ==
    LET width == normal_max - normal_min
        normal_range == IF width = 0 THEN 1 ELSE width
    IN  IF value < normal_min THEN <<normal_min - value, normal_range>>
        ELSE IF value > normal_max THEN <<value - normal_max, normal_range>>
        ELSE <<0, normal_range>>

\* fraction >= n/2, for n = 1 (0.5) and n = 2 (1.0)
AtLeastHalves(fraction, n) ==
    IF fraction[2] > 0 THEN 2 * fraction[1] >= n * fraction[2]
    ELSE 2 * fraction[1] <= n * fraction[2]

\* the priority check_lab_alert gives a deviation, "none" when it is not significant
LabPriority(deviation) ==
    IF AtLeastHalves(deviation, 1)
    THEN IF AtLeastHalves(deviation, 2) THEN "high" ELSE "medium"
    ELSE "none"

\* DataProcessor.check_lab_alert: the alerts table afterwards.  A result
\* without a test name raises at test_name.lower() and alerts nothing
check_lab_alert(table, patient_id, lab_data, fail) ==
    LET test_name == Get(lab_data, "test_name", None)
        normal_min == Get(lab_data, "normal_min", NULL)
        normal_max == Get(lab_data, "normal_max", NULL)
        deviation == Deviation(lab_data.value, normal_min, normal_max)
    IN  IF normal_min = NULL \/ normal_max = NULL THEN table
        ELSE IF LabPriority(deviation) = "none" \/ test_name = None THEN table
        ELSE generate_alert(table, patient_id, "lab_" \o Lower(test_name), deviation,
                            LabPriority(deviation), lab_data.timestamp,
                            <<"Abnormal result", test_name, lab_data.value,
                              Get(lab_data, "unit", ""), normal_min, normal_max>>,
                            "Review lab results", fail)

\* variant: the point is written before the relational insert
process_labs_SeriesFirst(msg, dbFail, tsFail, alertFail) ==
    LET ok == TimedComplete(msg)
    IN  /\ influx' = IF ok /\ ~tsFail
                     THEN influx_write(influx, LabPoint(msg)) ELSE influx
        /\ lab_results' = IF ok /\ ~tsFail /\ ~dbFail
                          THEN Append(lab_results, LabRow(msg)) ELSE lab_results
        /\ alerts' = IF ok /\ ~dbFail /\ ~tsFail /\ IsAbnormal(msg)
                     THEN check_lab_alert(alerts, msg.patient_id, msg, alertFail)
                     ELSE alerts
        /\ last' = [op |-> "process_labs", msg |-> msg,
                    outcome |-> Outcome(ok, dbFail, tsFail), alertFail |-> alertFail]
        /\ UNCHANGED <<patients, diagnoses, comorbidities, risk_scores, vitals,
                       medications, system_settings>>

\* DataProcessor.process_labs; alertFail is a store error inside generate_alert
process_labs(msg, dbFail, tsFail, alertFail) ==
    LET ok == TimedComplete(msg)
    IN  /\ lab_results' = IF ok /\ ~dbFail
                          THEN Append(lab_results, LabRow(msg)) ELSE lab_results
        /\ influx' = IF ok /\ ~dbFail /\ ~tsFail
                     THEN influx_write(influx, LabPoint(msg)) ELSE influx
        /\ alerts' = IF ok /\ ~dbFail /\ ~tsFail /\ IsAbnormal(msg)
                     THEN check_lab_alert(alerts, msg.patient_id, msg, alertFail)
                     ELSE alerts
        /\ last' = [op |-> "process_labs", msg |-> msg,
                    outcome |-> Outcome(ok, dbFail, tsFail), alertFail |-> alertFail]
        /\ UNCHANGED <<patients, diagnoses, comorbidities, risk_scores, vitals,
                       medications, system_settings>>

Lab(test, lo, hi, v) ==
    [test_name |-> test, value |-> v, unit |-> "mg/dL", normal_min |-> lo,
     normal_max |-> hi]

LabDicts ==
    {Lab("Glucose", 70, 99, v) : v \in {95, 110, 120, 160}}
    \cup {Lab("GLUCOSE", 70, 100, v) : v \in {114, 115, 129, 130, 55, 40}}
    \cup {Lab("WBC", 5, 5, v) : v \in {5, 6}}
    \cup {[test_name |-> "WBC", value |-> 20, unit |-> "x"],
          [value |-> 160, unit |-> "mg/dL", normal_min |-> 70, normal_max |-> 99]}

LabMsgs ==
    {At(d, "P1", 0) : d \in LabDicts}
    \cup {At(d, "P1", t) :
            d \in {Lab("Glucose", 70, 99, 160), Lab("GLUCOSE", 70, 100, 130)},
            t \in Times}
    \cup {At(Lab("Glucose", 70, 99, 160), "P2", 0),
          With(Lab("Glucose", 70, 99, 160), "patient_id", "P1"),
          With(Lab("Glucose", 70, 99, 160), "timestamp", 1)}

----------------------------------------------------------------------------
(* The gateway and the model server, which write to the same tables *)

Statuses == {"active", "acknowledged", "dismissed"}

\* api_gateway update_alert: the alerts table afterwards
update_alert(table, alert_id, status) ==
    IF alert_id \in DOMAIN table
    THEN [table EXCEPT ![alert_id].status = status]
    ELSE table

\* the request merged into the current policy, level by level
MergeThresholds(current, request) ==
    [rt \in DOMAIN current |->
        [level \in DOMAIN current[rt] |->
            IF rt \in DOMAIN request /\ level \in DOMAIN request[rt]
            THEN request[rt][level] ELSE current[rt][level]]]

\* model server update_alert_thresholds: system_settings afterwards (the
\* UPDATE changes the stored row, when there is one)
update_alert_thresholds(settings, request) ==
    IF settings = {} THEN settings
    ELSE {MergeThresholds(LoadThresholds(settings), request)}

ThresholdRequests ==
    {[sepsis |-> [high |-> 50, medium |-> 20]],
     [sepsis |-> [high |-> 60, medium |-> 30]],
     [deterioration |-> [high |-> 75]]}

----------------------------------------------------------------------------
(* Specifications *)

\* the processor instances of the consumer group
Instances == {1, 2}

\* an instance that is not inside generate_alert
Idle == [op |-> "idle"]

Init ==
    /\ patients = <<>>
    /\ diagnoses = {}
    /\ comorbidities = {}
    /\ risk_scores = <<>>
    /\ vitals = <<>>
    /\ lab_results = <<>>
    /\ medications = <<>>
    /\ alerts = <<>>
    /\ system_settings \in {{}, {ALERT_THRESHOLDS}}
    /\ influx = {}
    /\ now = 0
    /\ handled = 0
    /\ requests = 0
    /\ pc = "poll"
    /\ cur = 1
    /\ batch = <<>>
    /\ position = [k \in 1..4 |-> 0]
    /\ committed = [k \in 1..4 |-> 0]
    /\ results = [k \in 1..4 |-> <<>>]
    /\ consumers = 1..4
    /\ exit_code = NULL
    /\ inflight = [w \in Instances |-> Idle]
    /\ last = [op |-> "init"]

\* the messages of a stream, with the store calls that may raise meanwhile,
\* handed to the stream's handler
DeliverSnapshot(msgs) ==
    \E msg \in msgs, f \in Faults :
        /\ Applies(msg, f)
        /\ process_patient_data(msg, f, now)

DeliverVitals(msgs) ==
    \E msg \in msgs, dbFail \in BOOL, tsFail \in BOOL :
        /\ (dbFail \/ tsFail) => TimedComplete(msg)
        /\ ~(dbFail /\ tsFail)
        /\ process_vitals(msg, dbFail, tsFail)

DeliverLab(msgs) ==
    \E msg \in msgs, dbFail \in BOOL, tsFail \in BOOL, alertFail \in BOOL :
        /\ (dbFail \/ tsFail) => TimedComplete(msg)
        /\ ~(dbFail /\ tsFail)
        /\ alertFail => /\ TimedComplete(msg) /\ ~dbFail /\ ~tsFail /\ IsAbnormal(msg)
                        /\ LabPriority(Deviation(msg.value, msg.normal_min,
                                                 msg.normal_max)) # "none"
        /\ process_labs(msg, dbFail, tsFail, alertFail)

DeliverMedication(msgs) ==
    \E msg \in msgs, dbFail \in BOOL, tsFail \in BOOL :
        /\ (dbFail \/ tsFail) => MedComplete(msg)
        /\ ~(dbFail /\ tsFail)
        /\ process_medication(msg, dbFail, tsFail)

\* one more message handled, outside the polling loop
Counted ==
    /\ handled' = handled + 1
    /\ UNCHANGED <<now, requests, loopVars>>

HandleMedication == handled < MaxMsgs /\ DeliverMedication(MedMsgs) /\ Counted

HandleSnapshot(msgs, max) == handled < max /\ DeliverSnapshot(msgs) /\ Counted

HandleVitals == handled < MaxMsgs /\ DeliverVitals(VitalsMsgs) /\ Counted

HandleLab == handled < MaxLabMsgs /\ DeliverLab(LabMsgs) /\ Counted

\* an hour passes
Tick ==
    /\ now < MaxTime
    /\ now' = now + 1
    /\ last' = [op |-> "tick"]
    /\ UNCHANGED <<storeVars, handled, requests, loopVars>>

\* a user of the gateway sets the status of an alert
GatewayUpdateAlert ==
    /\ requests < MaxRequests
    /\ requests' = requests + 1
    /\ \E id \in DOMAIN alerts, st \in Statuses :
           /\ alerts[id].status # st
           /\ alerts' = update_alert(alerts, id, st)
    /\ last' = [op |-> "update_alert"]
    /\ UNCHANGED <<patients, diagnoses, comorbidities, risk_scores, vitals, lab_results,
                   medications, system_settings, influx, now, handled, loopVars>>

\* an administrator changes the stored threshold policy
AdminUpdateThresholds ==
    /\ requests < MaxRequests
    /\ requests' = requests + 1
    /\ \E request \in ThresholdRequests :
           /\ system_settings' = update_alert_thresholds(system_settings, request)
           /\ system_settings' # system_settings
    /\ last' = [op |-> "update_alert_thresholds"]
    /\ UNCHANGED <<patients, diagnoses, comorbidities, risk_scores, vitals, lab_results,
                   medications, alerts, influx, now, handled, loopVars>>

----------------------------------------------------------------------------
(* DataProcessor.run: the polling loop over the four consumers.  Each      *)
(* consumer is created with enable_auto_commit=True: the client commits    *)
(* the consumer's position from inside poll(), when its commit interval    *)
(* has passed, and from close(); the position is that after the last       *)
(* record a poll() returned.                                               *)

Topics == <<"patient-data", "patient-vitals", "patient-labs", "patient-medications">>

max_records == <<10, 50, 20, 10>>

Min(a, b) == IF a < b THEN a ELSE b

LoopSnapMsgs == {Pid(DemoA, "P1"), DemoA}

LoopVitalsMsgs == {At(Septic, "P1", 1), With(Septic, "patient_id", "P1"),
                   With(Septic, "timestamp", 1)}

LoopLabMsgs == {At(Lab("Glucose", 70, 99, 160), "P1", 0),
                With(Lab("Glucose", 70, 99, 160), "patient_id", "P1"),
                With(Lab("Glucose", 70, 99, 160), "timestamp", 0)}

LoopMedMsgs == {[patient_id |-> "P1", timestamp |-> 1, action |-> "add",
                 medication |-> AspirinDict],
                [patient_id |-> "P1", action |-> "add", medication |-> AspirinDict],
                [timestamp |-> 1, action |-> "add", medication |-> AspirinDict],
                [patient_id |-> "P1", timestamp |-> 1, medication |-> AspirinDict]}

\* variant: the loop goes back to the first consumer after every batch
AfterBatch_Restart ==
    /\ pc' = "poll"
    /\ cur' = 1

\* where the loop goes once the batch of the current consumer is done
AfterBatch ==
    /\ pc' = IF cur = Len(Topics) THEN "sleep" ELSE "poll"
    /\ cur' = IF cur = Len(Topics) THEN cur ELSE cur + 1

\* consumer.poll(timeout_ms=100, max_records=..) of the current consumer, when
\* the stream has one: the records come in the order of their offsets
Poll ==
    /\ pc = "poll"
    /\ \E n \in 0..(IF cur \in consumers
                     THEN Min(Min(max_records[cur], MaxBatch), MaxLoopMsgs - handled)
                     ELSE 0),
          autoCommit \in BOOL :
           /\ committed' = IF autoCommit /\ cur \in consumers
                           THEN [committed EXCEPT ![cur] = position[cur]]
                           ELSE committed
           /\ position' = [position EXCEPT ![cur] = @ + n]
           /\ batch' = [i \in 1..n |-> position[cur] + i]
           /\ IF n > 0 THEN pc' = "handle" /\ cur' = cur ELSE AfterBatch
    /\ last' = [op |-> "poll"]
    /\ UNCHANGED <<storeVars, now, handled, requests, inflight, results, consumers, exit_code>>

\* variant: the records of a batch are taken from its end
TakeNext_LastFirst(records) ==
    <<records[Len(records)], SubSeq(records, 1, Len(records) - 1)>>

\* for message in records: the record the loop takes, and those it leaves
TakeNext(records) == <<Head(records), Tail(records)>>

\* variant: a store error leaves the handler
Propagates_StoreErrors(outcome) == outcome \in {"db_error", "ts_error"}

\* what a handler lets out to run(): nothing, the body of every handler is
\* inside try / except Exception
Propagates(outcome) == FALSE

\* the next record of the batch goes through its handler
HandleRecord ==
    /\ pc = "handle"
    /\ \/ cur = 1 /\ DeliverSnapshot(LoopSnapMsgs)
       \/ cur = 2 /\ DeliverVitals(LoopVitalsMsgs)
       \/ cur = 3 /\ DeliverLab(LoopLabMsgs)
       \/ cur = 4 /\ DeliverMedication(LoopMedMsgs)
    /\ results' = [results EXCEPT ![cur] = Append(@, last'.outcome)]
    /\ handled' = handled + 1
    /\ batch' = TakeNext(batch)[2]
    /\ IF Propagates(last'.outcome)
       THEN /\ pc' = "stopped" /\ cur' = cur
            /\ committed' = position
            /\ exit_code' = 0
       ELSE /\ IF batch' = <<>> THEN AfterBatch ELSE pc' = "handle" /\ cur' = cur
            /\ UNCHANGED <<committed, exit_code>>
    /\ UNCHANGED <<now, requests, inflight, position, consumers>>

\* time.sleep(0.01), then the next cycle
Sleep ==
    /\ pc = "sleep"
    /\ pc' = "poll"
    /\ cur' = 1
    /\ last' = [op |-> "sleep"]
    /\ UNCHANGED <<storeVars, now, handled, requests, inflight, batch, position, committed, results,
                   consumers, exit_code>>

\* the finally clause: every consumer is closed, and close() commits; run()
\* and main() return
CloseConsumers ==
    /\ committed' = position
    /\ pc' = "stopped"
    /\ exit_code' = 0
    /\ UNCHANGED <<storeVars, now, handled, requests, inflight, cur, batch, position, results,
                   consumers>>

\* KeyboardInterrupt, wherever the loop is
Interrupt ==
    /\ pc \in {"poll", "handle", "sleep"}
    /\ last' = [op |-> "interrupt"]
    /\ CloseConsumers

\* poll() raises: the loop logs the error and ends
PollFails ==
    /\ pc = "poll"
    /\ last' = [op |-> "poll_error"]
    /\ CloseConsumers

----------------------------------------------------------------------------
(* Startup: main() builds the DataProcessor, which connects to the two     *)
(* stores, and run() creates the four consumers before its loop.           *)

\* the process as main() is entered
InitStart ==
    /\ patients = <<>>
    /\ diagnoses = {}
    /\ comorbidities = {}
    /\ risk_scores = <<>>
    /\ vitals = <<>>
    /\ lab_results = <<>>
    /\ medications = <<>>
    /\ alerts = <<>>
    /\ system_settings \in {{}, {ALERT_THRESHOLDS}}
    /\ influx = {}
    /\ now = 0
    /\ handled = 0
    /\ requests = 0
    /\ pc = "connect_db"
    /\ cur = 1
    /\ batch = <<>>
    /\ position = [k \in 1..4 |-> 0]
    /\ committed = [k \in 1..4 |-> 0]
    /\ results = [k \in 1..4 |-> <<>>]
    /\ consumers = {}
    /\ exit_code = NULL
    /\ inflight = [w \in Instances |-> Idle]
    /\ last = [op |-> "init"]

\* logger.error(..); sys.exit(1)
ExitFatal ==
    /\ pc' = "exited"
    /\ exit_code' = 1
    /\ last' = [op |-> "startup_error", at |-> pc]
    /\ UNCHANGED <<storeVars, now, handled, requests, inflight, cur, batch, position, committed,
                   results, consumers>>

\* one step of the startup that went well, on to the next
Started(next) ==
    /\ pc' = next
    /\ last' = [op |-> "startup", at |-> pc]
    /\ UNCHANGED <<storeVars, now, handled, requests, inflight, batch, position, committed,
                   results, exit_code>>

\* __init__: create_engine and SELECT 1
ConnectPostgres ==
    /\ pc = "connect_db"
    /\ \/ Started("connect_influx") /\ UNCHANGED <<cur, consumers>>
       \/ ExitFatal

\* __init__: InfluxDBClient and the health check
ConnectInflux ==
    /\ pc = "connect_influx"
    /\ \/ Started("subscribe") /\ UNCHANGED <<cur, consumers>>
       \/ ExitFatal

\* variant: a consumer that cannot be created is logged and left out
CreateConsumer_Continue ==
    /\ pc = "subscribe"
    /\ \E created \in BOOL :
          /\ consumers' = IF created THEN consumers \cup {cur} ELSE consumers
          /\ cur' = IF cur = Len(Topics) THEN 1 ELSE cur + 1
          /\ Started(IF cur = Len(Topics) THEN "poll" ELSE "subscribe")

\* initialize_kafka_consumers: one turn of its loop over the topics
CreateConsumer ==
    /\ pc = "subscribe"
    /\ \/ /\ consumers' = consumers \cup {cur}
          /\ cur' = IF cur = Len(Topics) THEN 1 ELSE cur + 1
          /\ Started(IF cur = Len(Topics) THEN "poll" ELSE "subscribe")
       \/ ExitFatal

NextStart ==
    \/ ConnectPostgres
    \/ ConnectInflux
    \/ CreateConsumer
    \/ Poll
    \/ HandleRecord
    \/ Sleep
    \/ Interrupt
    \/ PollFails

SpecStart == InitStart /\ [][NextStart]_vars

NextLoop ==
    \/ Poll
    \/ HandleRecord
    \/ Sleep
    \/ Interrupt
    \/ PollFails

SpecLoop == Init /\ [][NextLoop]_vars

\* while True: the loop keeps taking its next step until it is stopped
SpecLoopFair ==
    /\ Init /\ [][NextLoop]_vars
    /\ WF_vars(Poll) /\ WF_vars(HandleRecord) /\ WF_vars(Sleep)

NextMed == HandleMedication

SpecMed == Init /\ [][NextMed]_vars

NextSnap == HandleSnapshot(SnapMsgs, MaxMsgs)

SpecSnap == Init /\ [][NextSnap]_vars

NextAlert ==
    \/ HandleSnapshot(RiskMsgs, MaxRiskMsgs)
    \/ Tick
    \/ GatewayUpdateAlert
    \/ AdminUpdateThresholds

SpecAlert == Init /\ [][NextAlert]_vars

NextVitals == HandleVitals

SpecVitals == Init /\ [][NextVitals]_vars

NextLab == HandleLab

SpecLab == Init /\ [][NextLab]_vars

NextTier ==
    \/ HandleSnapshot(TierMsgs, MaxRiskMsgs)
    \/ AdminUpdateThresholds

SpecTier == Init /\ [][NextTier]_vars

\* lab messages that come again: each is one event of its (patient, test, time)
RedeliveredLabMsgs ==
    {At(Lab("Glucose", 70, 99, 160), "P1", 0),
     At(Lab("Glucose", 70, 99, 160), "P2", 0),
     At(Lab("GLUCOSE", 70, 100, 130), "P1", 1),
     At(Lab("Glucose", 70, 99, 95), "P1", 2)}

HandleRedelivered == handled < MaxMsgs /\ DeliverLab(RedeliveredLabMsgs) /\ Counted

NextRedeliver ==
    \/ HandleRedelivered
    \/ GatewayUpdateAlert

SpecRedeliver == Init /\ [][NextRedeliver]_vars

\* messages of the four streams, each written to both stores
SinkSnapMsgs ==
    {[patient_id |-> "P1", risk_scores |-> [sepsis |-> 75]],
     [patient_id |-> "P2", risk_scores |-> [sepsis |-> 20]]}

SinkMedMsgs ==
    {[patient_id |-> "P1", timestamp |-> 1, action |-> "add",
      medication |-> With(AspirinDict, "start_date", 1)],
     [patient_id |-> "P1", timestamp |-> 2, action |-> "change_dose",
      medication |-> With(AspirinDict, "dosage", "20mg"), old_dosage |-> "10mg"],
     [patient_id |-> "P1", timestamp |-> 2, action |-> "discontinue",
      medication |-> With(AspirinDict, "start_date", 1)]}

HandleSink ==
    /\ handled < MaxMsgs
    /\ \/ DeliverSnapshot(SinkSnapMsgs)
       \/ DeliverVitals(LoopVitalsMsgs)
       \/ DeliverLab(LoopLabMsgs)
       \/ DeliverMedication(SinkMedMsgs)
    /\ Counted

NextSink == HandleSink

SpecSink == Init /\ [][NextSink]_vars

\* lab results of one patient under test names that differ in case or in
\* test, next to risk-score blocks of the same patient
LabKeyMsgs ==
    {At(Lab("Glucose", 70, 99, 160), "P1", 0),
     At(Lab("GLUCOSE", 70, 100, 130), "P1", 1),
     At(Lab("WBC", 5, 5, 6), "P1", 0)}

HandleLabKey ==
    /\ handled < MaxMsgs
    /\ \/ DeliverLab(LabKeyMsgs)
       \/ DeliverSnapshot(SinkSnapMsgs)
    /\ Counted

NextLabKey == HandleLabKey

SpecLabKey == Init /\ [][NextLabKey]_vars

(* Two processor instances of one consumer group on the same stores.  The  *)
(* statements of generate_alert are steps of their own here: the dedup     *)
(* query runs on one connection, the INSERT on another, and a statement of *)
(* the other instance can come between them.                               *)

\* lab results of one patient and test, less than 4 hours apart, next to a
\* result of another patient
RaceLabMsgs ==
    {At(Lab("Glucose", 70, 99, 160), "P1", 0),
     At(Lab("GLUCOSE", 70, 100, 130), "P1", 1),
     At(Lab("Glucose", 70, 99, 160), "P2", 0)}

\* process_labs of instance w up to the dedup query of generate_alert: the
\* row it is about to insert when the query finds no recent similar alert
InstanceQuery(w) ==
    /\ inflight[w] = Idle
    /\ handled < MaxMsgs
    /\ handled' = handled + 1
    /\ \E msg \in RaceLabMsgs :
          LET after == check_lab_alert(alerts, msg.patient_id, msg, FALSE)
          IN  /\ lab_results' = Append(lab_results, LabRow(msg))
              /\ influx' = influx_write(influx, LabPoint(msg))
              /\ inflight' = [inflight EXCEPT ![w] =
                                IF after # alerts
                                THEN [op |-> "insert", row |-> after[Len(after)]]
                                ELSE Idle]
              /\ last' = [op |-> "generate_alert_query", instance |-> w, msg |-> msg]
    /\ UNCHANGED <<patients, diagnoses, comorbidities, risk_scores, vitals, medications,
                   alerts, system_settings, now, requests, pc, cur, batch, position,
                   committed, results, consumers, exit_code>>

\* the INSERT and commit of generate_alert of instance w
InstanceInsert(w) ==
    /\ inflight[w] # Idle
    /\ alerts' = Append(alerts, inflight[w].row)
    /\ inflight' = [inflight EXCEPT ![w] = Idle]
    /\ last' = [op |-> "generate_alert_insert", instance |-> w]
    /\ UNCHANGED <<patients, diagnoses, comorbidities, risk_scores, vitals, lab_results,
                   medications, system_settings, influx, now, handled, requests, pc, cur,
                   batch, position, committed, results, consumers, exit_code>>

NextRace == \E w \in Instances : InstanceQuery(w) \/ InstanceInsert(w)

SpecRace == Init /\ [][NextRace]_vars

----------------------------------------------------------------------------
(* Helpers of the properties *)

\* the snapshot step just taken handled a complete message
SnapshotDone == last.op = "process_patient_data" /\ ~last.skipped

\* the rows a step added to the alerts table
NewAlerts == {alerts'[i] : i \in (Len(alerts) + 1)..Len(alerts')}

\* the active alerts of a pair
ActiveAlerts(p, rt) ==
    {i \in DOMAIN alerts :
        /\ alerts[i].patient_id = p
        /\ alerts[i].risk_type = rt
        /\ alerts[i].status = "active"}

AllRiskTypes == {"deterioration", "readmission", "sepsis", "lab_glucose", "lab_wbc"}

\* the thresholds in force: the stored policy when there is one
InForce == IF system_settings = {} THEN ALERT_THRESHOLDS
           ELSE CHOOSE t \in system_settings : TRUE

----------------------------------------------------------------------------
(* C1: for any sequence of add / discontinue / change_dose events for the  *)
(* same (patient_id, name), after each event at most one medication record *)
(* of that (patient_id, name) has end_date = null.                         *)

ActiveMeds(p, n) ==
    {i \in DOMAIN medications :
        /\ medications[i].patient_id = p
        /\ medications[i].name = n
        /\ medications[i].end_date = NULL}

C1_AtMostOneActiveMedication ==
    \A p \in Patients, n \in MedNames : Cardinality(ActiveMeds(p, n)) <= 1

----------------------------------------------------------------------------
(* C2: when a threshold-crossing event of a (patient_id, risk_type) is     *)
(* checked and the store answers, a new alert row is created exactly when  *)
(* no active alert of that pair has a timestamp within the 4 hours before  *)
(* the event's timestamp (later than timestamp - 4 h, not later than the   *)
(* timestamp).                                                             *)

C2_Step ==
    (last'.op = "process_patient_data" /\ last'.risk = "checked" /\ ~last'.f.thresholds) =>
        \A rt \in DOMAIN InForce :
            LET p == last'.msg.patient_id
                ts == last'.timestamp
                score == Get(last'.msg.risk_scores, rt, 0)
                crossing == score >= InForce[rt].medium \/ score >= InForce[rt].high
                within == {i \in ActiveAlerts(p, rt) :
                             /\ alerts[i].timestamp > ts - 4
                             /\ alerts[i].timestamp <= ts}
                created == {r \in NewAlerts : r.patient_id = p /\ r.risk_type = rt}
            IN  (crossing /\ rt \notin last'.f.alert) =>
                   /\ Cardinality(created) = (IF within = {} THEN 1 ELSE 0)
                   /\ \A r \in created : r.timestamp = ts /\ r.status = "active"

C2_DedupWindow == [][C2_Step]_vars

\* two sepsis events of P1 five hours apart have left two active alerts
C2_Witness ==
    /\ requests = 0
    /\ pc = "poll"
    /\ cur = 1
    /\ batch = <<>>
    /\ position = [k \in 1..4 |-> 0]
    /\ committed = [k \in 1..4 |-> 0]
    /\ results = [k \in 1..4 |-> <<>>]
    /\ last.op = "process_patient_data" /\ last.risk = "checked"
    /\ Len(alerts) = 2
    /\ \A i \in {1, 2} : alerts[i].patient_id = "P1" /\ alerts[i].risk_type = "sepsis"
                         /\ alerts[i].status = "active"
    /\ alerts[1].timestamp = 0 /\ alerts[2].timestamp = 5

----------------------------------------------------------------------------
(* C3 as stated: at most one active alert exists for a (patient_id,        *)
(* risk_type).                                                             *)

C3_AtMostOneActiveAlert ==
    \A p \in Patients, rt \in AllRiskTypes : Cardinality(ActiveAlerts(p, rt)) <= 1

(* C3 as amended: the processor never inserts an alert for a (patient_id,  *)
(* risk_type) while an alert of that pair is active with a timestamp later *)
(* than the new alert's timestamp minus 4 hours.                           *)

C3_Step ==
    \A r \in NewAlerts :
        \A i \in ActiveAlerts(r.patient_id, r.risk_type) :
            alerts[i].timestamp <= r.timestamp - 4

C3_NoDuplicateInWindow == [][C3_Step]_vars

\* a second alert of a pair was inserted while the first, four hours or more
\* older, is still active
C3_Witness ==
    \E i, j \in DOMAIN alerts :
        /\ i < j
        /\ alerts[i].patient_id = alerts[j].patient_id
        /\ alerts[i].risk_type = alerts[j].risk_type
        /\ alerts[i].status = "active" /\ alerts[j].status = "active"
        /\ alerts[i].timestamp <= alerts[j].timestamp - 4

----------------------------------------------------------------------------
(* C6: with no active alert of the pair in the way, a checked score at or  *)
(* above the high threshold creates an alert of priority high, a score     *)
(* below it and at or above the medium threshold one of priority medium,   *)
(* and a lower score none.                                                 *)

C6_Step ==
    (last'.op = "process_patient_data" /\ last'.risk = "checked" /\ ~last'.f.thresholds) =>
        \A rt \in DOMAIN InForce :
            LET p == last'.msg.patient_id
                score == Get(last'.msg.risk_scores, rt, 0)
                created == {r \in NewAlerts : r.patient_id = p /\ r.risk_type = rt}
            IN  (ActiveAlerts(p, rt) = {} /\ rt \notin last'.f.alert) =>
                   IF score >= InForce[rt].high
                   THEN Cardinality(created) = 1 /\ \A r \in created : r.priority = "high"
                   ELSE IF score >= InForce[rt].medium
                   THEN Cardinality(created) = 1 /\ \A r \in created : r.priority = "medium"
                   ELSE created = {}

C6_ThresholdTiering == [][C6_Step]_vars

\* under the built-in sepsis thresholds 0.6 / 0.3 a score of 0.45 has made a
\* medium alert for one patient and a score of 0.75 a high one for another
C6_Witness ==
    /\ system_settings = {}
    /\ \E i \in DOMAIN alerts :
          /\ alerts[i].patient_id = "P1" /\ alerts[i].risk_type = "sepsis"
          /\ alerts[i].risk_score = <<45, 100>> /\ alerts[i].priority = "medium"
    /\ \E i \in DOMAIN alerts :
          /\ alerts[i].patient_id = "P2" /\ alerts[i].risk_type = "sepsis"
          /\ alerts[i].risk_score = <<75, 100>> /\ alerts[i].priority = "high"

----------------------------------------------------------------------------
(* C7: for an abnormal lab result written to both stores, with no active   *)
(* alert of the patient in the way, the deviation d = distance from the    *)
(* nearest bound / (normal_max - normal_min), width 0 counted as 1,        *)
(* decides: d < 0.5 no alert, 0.5 <= d < 1 a medium alert, d >= 1 a high   *)
(* alert.                                                                  *)

C7_Step ==
    (/\ last'.op = "process_labs" /\ last'.outcome = "ok" /\ ~last'.alertFail
     /\ {"test_name", "value", "normal_min", "normal_max"} \subseteq DOMAIN last'.msg) =>
        LET m == last'.msg
            dist == IF m.value < m.normal_min THEN m.normal_min - m.value
                    ELSE IF m.value > m.normal_max THEN m.value - m.normal_max ELSE 0
            w == IF m.normal_max = m.normal_min THEN 1 ELSE m.normal_max - m.normal_min
            free == \A i \in DOMAIN alerts :
                       alerts[i].patient_id # m.patient_id \/ alerts[i].status # "active"
        IN  (dist > 0 /\ w > 0 /\ free) =>
               IF 2 * dist < w THEN NewAlerts = {}
               ELSE /\ Cardinality(NewAlerts) = 1
                    /\ \A r \in NewAlerts :
                          /\ r.patient_id = m.patient_id
                          /\ r.risk_score = <<dist, w>>
                          /\ r.priority = (IF dist < w THEN "medium" ELSE "high")

C7_LabDeviation == [][C7_Step]_vars

\* Glucose in [70, 99]: 120 has made a medium alert and 160 a high one
C7_Witness ==
    /\ \E i \in DOMAIN alerts :
          alerts[i].risk_type = "lab_glucose" /\ alerts[i].risk_score = <<21, 29>>
          /\ alerts[i].priority = "medium"
    /\ \E i \in DOMAIN alerts :
          alerts[i].risk_type = "lab_glucose" /\ alerts[i].risk_score = <<61, 29>>
          /\ alerts[i].priority = "high"

----------------------------------------------------------------------------
(* C8: the patients table never holds two rows of one patient_id, and      *)
(* after a snapshot whose upsert the store accepted the one row of that    *)
(* patient carries the attributes of that message (an absent attribute is  *)
(* null).                                                                  *)

PatientRows(p) == {i \in DOMAIN patients : patients[i].patient_id = p}

C8_IdempotentUpsert ==
    /\ \A p \in Patients : Cardinality(PatientRows(p)) <= 1
    /\ (SnapshotDone /\ ~last.f.upsert) =>
          /\ Cardinality(PatientRows(last.msg.patient_id)) = 1
          /\ \A i \in PatientRows(last.msg.patient_id) :
                \A c \in Columns : patients[i][c] = Get(last.msg, c, None)

\* the third snapshot of P1 has overwritten the one row of P1
C8_Witness ==
    /\ handled = 3
    /\ SnapshotDone /\ ~last.f.upsert
    /\ last.msg = Pid(DemoB, "P1")
    /\ Len(patients) = 1
    /\ patients[1].department = "Cardiology"

----------------------------------------------------------------------------
(* C9: after a snapshot that carries a diagnoses (comorbidities) field and *)
(* whose write the store accepted, the stored diagnosis (comorbidity) set  *)
(* of the patient is the set of that message, the empty list included.     *)

StoredDiagnoses(p) == {r.diagnosis : r \in {x \in diagnoses : x.patient_id = p}}

StoredComorbidities(p) == {r.condition : r \in {x \in comorbidities : x.patient_id = p}}

C9_ReplaceBySet ==
    (SnapshotDone /\ last.f = NoFault) =>
        /\ "diagnoses" \in DOMAIN last.msg =>
              StoredDiagnoses(last.msg.patient_id) = Range(last.msg.diagnoses)
        /\ "comorbidities" \in DOMAIN last.msg =>
              StoredComorbidities(last.msg.patient_id) = Range(last.msg.comorbidities)

----------------------------------------------------------------------------
(* C10: the vitals table holds one row for a (patient_id, timestamp) and   *)
(* the lab_results table one row for a (patient_id, timestamp, test_name), *)
(* however often the message is handled.                                   *)

C10_OneRowPerNaturalKey ==
    /\ \A i, j \in DOMAIN vitals :
          (vitals[i].patient_id = vitals[j].patient_id
           /\ vitals[i].timestamp = vitals[j].timestamp) => i = j
    /\ \A i, j \in DOMAIN lab_results :
          (lab_results[i].patient_id = lab_results[j].patient_id
           /\ lab_results[i].timestamp = lab_results[j].timestamp
           /\ lab_results[i].test_name = lab_results[j].test_name) => i = j

----------------------------------------------------------------------------
(* C4: the committed position of a stream is never past a record whose     *)
(* handler has not yet returned.                                           *)

C4_CommitOnlyHandled ==
    \A k \in DOMAIN Topics : committed[k] <= Len(results[k])

----------------------------------------------------------------------------
(* C5: the committed position of a stream is never past a record whose     *)
(* relational write failed with a store error, so that the broker delivers *)
(* the record again.                                                       *)

C5_FailedWriteNotCommitted ==
    \A k \in DOMAIN Topics :
        \A i \in 1..Min(committed[k], Len(results[k])) : results[k][i] # "db_error"

----------------------------------------------------------------------------
(* C11: handling a risk-bearing message again never inserts a second alert *)
(* row for its event: when the alerts table already holds the alert of the *)
(* message's (patient_id, risk_type, timestamp), the handler adds no row.   *)

C11_Step ==
    (last'.op = "process_labs" /\ last'.outcome # "skipped"
     /\ "test_name" \in DOMAIN last'.msg) =>
        LET m == last'.msg
            earlier == {i \in DOMAIN alerts :
                          /\ alerts[i].patient_id = m.patient_id
                          /\ alerts[i].risk_type = "lab_" \o Lower(m.test_name)
                          /\ alerts[i].timestamp = m.timestamp}
        IN  earlier # {} => NewAlerts = {}

C11_NoSecondAlertOnRedelivery == [][C11_Step]_vars

----------------------------------------------------------------------------
(* C12: when the relational write of a vitals, labs, risk-score or         *)
(* medication message succeeded and the time-series write that follows      *)
(* fails, the relational rows of the message are in the table after the     *)
(* handler, and the handler has written no point: the time-series write is  *)
(* not made again.                                                          *)

C12_Step ==
    (last'.op # "init" /\ "outcome" \in DOMAIN last' /\ last'.outcome = "ts_error") =>
        LET m == last'.msg
        IN  /\ influx' = influx
            /\ last'.op = "process_vitals" =>
                  /\ Len(vitals') = Len(vitals) + 1
                  /\ SubSeq(vitals', 1, Len(vitals)) = vitals
                  /\ vitals'[Len(vitals')].patient_id = m.patient_id
                  /\ vitals'[Len(vitals')].timestamp = m.timestamp
                  /\ vitals'[Len(vitals')].heart_rate = m.heart_rate
            /\ last'.op = "process_labs" =>
                  /\ Len(lab_results') = Len(lab_results) + 1
                  /\ SubSeq(lab_results', 1, Len(lab_results)) = lab_results
                  /\ lab_results'[Len(lab_results')].patient_id = m.patient_id
                  /\ lab_results'[Len(lab_results')].timestamp = m.timestamp
                  /\ lab_results'[Len(lab_results')].value = m.value
            /\ last'.op = "process_patient_data" =>
                  /\ Len(risk_scores') = Len(risk_scores) + 1
                  /\ SubSeq(risk_scores', 1, Len(risk_scores)) = risk_scores
                  /\ risk_scores'[Len(risk_scores')].patient_id = m.patient_id
                  /\ risk_scores'[Len(risk_scores')].sepsis_risk = m.risk_scores.sepsis
            /\ (last'.op = "process_medication" /\ m.action \in {"add", "change_dose"}) =>
                  /\ Len(medications') = Len(medications) + 1
                  /\ medications'[Len(medications')].patient_id = m.patient_id
                  /\ medications'[Len(medications')].dosage = m.medication.dosage
                  /\ medications'[Len(medications')].end_date = NULL
            /\ (last'.op = "process_medication" /\ m.action \in {"discontinue", "change_dose"}) =>
                  \A i \in DOMAIN medications :
                      medications'[i].end_date =
                          IF /\ medications[i].end_date = NULL
                             /\ medications[i].patient_id = m.patient_id
                             /\ medications[i].name = m.medication.name
                             /\ (m.action = "discontinue" =>
                                    medications[i].start_date = m.medication.start_date)
                             /\ (m.action = "change_dose" =>
                                    medications[i].dosage = m.old_dosage)
                          THEN m.timestamp ELSE medications[i].end_date

C12_RelationalWriteKept == [][C12_Step]_vars

\* a vitals row of P1 is stored though its time-series write failed, and the
\* bucket has no vitals point
C12_Witness ==
    /\ last.op = "process_vitals" /\ last.outcome = "ts_error"
    /\ \E i \in DOMAIN vitals :
          vitals[i].patient_id = "P1" /\ vitals[i].timestamp = 1
    /\ \A q \in influx : q.measurement # "vitals"

----------------------------------------------------------------------------
(* C13: when the relational insert of a risk-score block or of an abnormal *)
(* lab result succeeded and the time-series write for it failed, the alert  *)
(* check is still made: a score at or above its medium threshold, or a lab  *)
(* value half a range or more outside its range, with no active alert of    *)
(* the patient in the way, leaves a new alert.                              *)

C13_Step ==
    (last'.op \in {"process_patient_data", "process_labs"}
     /\ last'.outcome = "ts_error") =>
        LET m == last'.msg
            free == \A i \in DOMAIN alerts :
                       alerts[i].patient_id # m.patient_id \/ alerts[i].status # "active"
            due == IF last'.op = "process_labs"
                   THEN /\ {"test_name", "value", "normal_min", "normal_max"}
                              \subseteq DOMAIN m
                        /\ m.normal_max > m.normal_min
                        /\ \/ 2 * (m.value - m.normal_max) >= m.normal_max - m.normal_min
                           \/ 2 * (m.normal_min - m.value) >= m.normal_max - m.normal_min
                   ELSE \E rt \in DOMAIN InForce :
                           Get(m.risk_scores, rt, 0) >= InForce[rt].medium
        IN  (free /\ due) => NewAlerts # {}

C13_AlertCheckAfterTimeSeriesFailure == [][C13_Step]_vars

----------------------------------------------------------------------------
(* C14: a message without a required key (patient_id for a snapshot;       *)
(* patient_id or timestamp for vitals and labs; patient_id, timestamp or    *)
(* action for a medication event) is skipped: no table and no point         *)
(* changes, nothing leaves the handler, and the loop goes on with the rest  *)
(* of the batch.                                                            *)

RequiredKeys(op) ==
    CASE op = "process_patient_data" -> {"patient_id"}
      [] op = "process_vitals" -> {"patient_id", "timestamp"}
      [] op = "process_labs" -> {"patient_id", "timestamp"}
      [] op = "process_medication" -> {"patient_id", "timestamp", "action"}
      [] OTHER -> {}

C14_Step ==
    (pc = "handle" /\ "msg" \in DOMAIN last'
     /\ ~(RequiredKeys(last'.op) \subseteq DOMAIN last'.msg)) =>
        /\ UNCHANGED storeVars
        /\ last'.outcome = "skipped"
        /\ pc' \in {"handle", "poll", "sleep"}
        /\ batch' = Tail(batch)
        /\ batch' # <<>> => pc' = "handle" /\ cur' = cur

C14_MalformedSkipped == [][C14_Step]_vars

\* a medication event without an action tag went through the handler after a
\* complete one of the same batch, and only the complete one is stored
C14_Witness ==
    /\ cur = 4
    /\ last.op = "process_medication" /\ "action" \notin DOMAIN last.msg
    /\ results[4] = <<"ok", "skipped">>
    /\ Len(medications) = 1
    /\ pc # "stopped"

----------------------------------------------------------------------------
(* C15: a store error met while one message is handled does not end the    *)
(* batch or the loop: the records after it stay in the batch, the next one *)
(* is handled next, and the loop stops only on an interrupt or a failed    *)
(* poll.                                                                    *)

C15_Step ==
    /\ (pc = "handle" /\ "outcome" \in DOMAIN last'
        /\ last'.outcome \in {"db_error", "ts_error"}) =>
           /\ pc' \in {"handle", "poll", "sleep"}
           /\ batch' = Tail(batch)
           /\ batch' # <<>> => pc' = "handle" /\ cur' = cur
    /\ pc' = "stopped" => last'.op \in {"interrupt", "poll_error"}

C15_FailureDoesNotAbortBatch == [][C15_Step]_vars

\* the first record of a batch of two met a store error and the second was
\* handled all the same
C15_Witness ==
    \E k \in DOMAIN Topics :
        /\ position[k] = 2 /\ Len(results[k]) = 2
        /\ results[k][1] = "db_error" /\ results[k][2] = "ok"
        /\ pc # "stopped"

----------------------------------------------------------------------------
(* C16: within a stream the records are handled in the order of delivery:  *)
(* the record a handler takes is older than every record left in the batch *)
(* and every record delivered before it has been handled.                  *)

C16_Step ==
    (pc = "handle" /\ handled' = handled + 1) =>
        \A o \in Range(batch) :
            o \notin Range(batch') =>
                /\ \A r \in Range(batch') : o < r
                /\ Len(results[cur]) = o - 1
                /\ Len(results'[cur]) = o

C16_DeliveryOrder == [][C16_Step]_vars

\* of a batch of two records the first has been handled and the second waits
C16_Witness ==
    /\ pc = "handle"
    /\ batch = <<2>>
    /\ position[cur] = 2
    /\ Len(results[cur]) = 1

----------------------------------------------------------------------------
(* C20: the polling loop is entered only with both stores connected and    *)
(* all four consumers created; a failure at any step of the startup ends   *)
(* the process with exit status 1 before anything is polled.               *)

C20_StartupFatal ==
    /\ pc \in {"poll", "handle", "sleep"} => consumers = DOMAIN Topics
    /\ last.op = "startup_error" => pc = "exited" /\ exit_code = 1
    /\ pc = "exited" =>
          /\ exit_code = 1
          /\ consumers # DOMAIN Topics
          /\ \A k \in DOMAIN Topics : position[k] = 0
    /\ exit_code = 0 => pc = "stopped"

\* the third consumer could not be created: the process has exited with 1
C20_Witness ==
    /\ pc = "exited" /\ exit_code = 1
    /\ last.at = "subscribe"
    /\ consumers = {1, 2}

----------------------------------------------------------------------------
(* C17: a change_dose event written by the store, for a (patient_id, name) *)
(* that has one active record, closes that record with the event timestamp  *)
(* and opens one record with the new dosage: afterwards exactly one record  *)
(* of the (patient_id, name) is active, the new one.                        *)

\* the medication event just handled was written to the relational store
MedicationWritten(action) ==
    /\ last'.op = "process_medication"
    /\ last'.outcome \in {"ok", "ts_error"}
    /\ last'.msg.action = action

ActiveMedsAfter(p, n) ==
    {i \in DOMAIN medications' :
        /\ medications'[i].patient_id = p
        /\ medications'[i].name = n
        /\ medications'[i].end_date = NULL}

C17_Step ==
    MedicationWritten("change_dose") =>
        LET m == last'.msg
            before == ActiveMeds(m.patient_id, m.medication.name)
            after == ActiveMedsAfter(m.patient_id, m.medication.name)
        IN  Cardinality(before) = 1 =>
               /\ \A i \in before : medications'[i].end_date = m.timestamp
               /\ after = {Len(medications) + 1}
               /\ \A i \in after : medications'[i].dosage = m.medication.dosage

C17_ChangeDoseReplacesActive == [][C17_Step]_vars

----------------------------------------------------------------------------
(* C18: a discontinue event written by the store, for a (patient_id, name) *)
(* that has one active record, sets the end_date of that record to the     *)
(* event timestamp, leaves no active record of the (patient_id, name) and  *)
(* changes no other record.                                                *)

C18_Step ==
    MedicationWritten("discontinue") =>
        LET m == last'.msg
            before == ActiveMeds(m.patient_id, m.medication.name)
        IN  Cardinality(before) = 1 =>
               /\ Len(medications') = Len(medications)
               /\ \A i \in before : medications'[i].end_date = m.timestamp
               /\ ActiveMedsAfter(m.patient_id, m.medication.name) = {}
               /\ \A i \in DOMAIN medications \ before : medications'[i] = medications[i]

C18_DiscontinueClosesActive == [][C18_Step]_vars

----------------------------------------------------------------------------
(* C19: after a snapshot with a medications list, written by the store,    *)
(* every record of the patient that was active before is closed, the       *)
(* active records of the patient are the entries of the list, one per      *)
(* medication name when the list names each medication once, and the       *)
(* records of other patients are as before.                                *)

Entry(r) == [name |-> r.name, dosage |-> r.dosage]

C19_Step ==
    (/\ last'.op = "process_patient_data" /\ ~last'.skipped /\ last'.f = NoFault
     /\ "medications" \in DOMAIN last'.msg) =>
        LET p == last'.msg.patient_id
            list == last'.msg.medications
            names == {list[j].name : j \in DOMAIN list}
            active == {i \in DOMAIN medications' :
                          medications'[i].patient_id = p /\ medications'[i].end_date = NULL}
        IN  /\ \A i \in DOMAIN medications :
                  IF medications[i].patient_id = p
                  THEN medications[i].end_date = NULL => medications'[i].end_date # NULL
                  ELSE medications'[i] = medications[i]
            /\ {Entry(medications'[i]) : i \in active} = {Entry(list[j]) : j \in DOMAIN list}
            /\ Cardinality(names) = Len(list) =>
                  \A n \in names : Cardinality(ActiveMedsAfter(p, n)) = 1

C19_FullListReplacesActive == [][C19_Step]_vars

----------------------------------------------------------------------------
(* C21: when the processor has stopped after an interrupt, every record it *)
(* pulled has been handled: no record of a pulled batch is left unhandled. *)

C21_ShutdownFinishesBatch ==
    (pc = "stopped" /\ last.op = "interrupt") =>
        /\ batch = <<>>
        /\ \A k \in DOMAIN Topics : Len(results[k]) = position[k]

----------------------------------------------------------------------------
(* C22: after a poll that failed the processor is still running, to poll   *)
(* the stream again.                                                       *)

C22_RunningAfterFailedPoll ==
    last.op = "poll_error" => pc \in {"poll", "handle", "sleep"}

----------------------------------------------------------------------------
(* C23: when the read of the threshold policy fails in a check made after  *)
(* a check that read it (and created an alert), the scores are still       *)
(* evaluated against the policy obtained before: a sepsis score at or above *)
(* every high threshold the policy has had, with no active alert of the     *)
(* patient in the way, creates an alert.                                    *)

C23_Step ==
    (/\ last'.op = "process_patient_data" /\ last'.risk = "checked"
     /\ last'.f.thresholds
     /\ \E i \in DOMAIN alerts : alerts[i].risk_type \in Range(RiskTypes)) =>
        LET m == last'.msg
            free == \A i \in DOMAIN alerts :
                       alerts[i].patient_id # m.patient_id \/ alerts[i].status # "active"
        IN  (free /\ Get(m.risk_scores, "sepsis", 0) >= 60) => NewAlerts # {}

C23_FallBackToCachedPolicy == [][C23_Step]_vars

----------------------------------------------------------------------------
(* C24: with no stored policy the check uses deterioration 0.7 / 0.4,      *)
(* readmission 0.8 / 0.5, sepsis 0.6 / 0.3; with a stored policy it uses   *)
(* the stored one.  (A score is judged when no active alert of its pair is *)
(* in the way and the store answers.)                                      *)

BuiltInDefaults ==
    [deterioration |-> [high |-> 70, medium |-> 40],
     readmission |-> [high |-> 80, medium |-> 50],
     sepsis |-> [high |-> 60, medium |-> 30]]

\* the snapshot step just taken has judged every score by this policy
TieredBy(policy) ==
    \A rt \in Range(RiskTypes) :
        LET p == last'.msg.patient_id
            score == Get(last'.msg.risk_scores, rt, 0)
            created == {r \in NewAlerts : r.patient_id = p /\ r.risk_type = rt}
            expected == IF rt \notin DOMAIN policy THEN "none"
                        ELSE IF score >= policy[rt].high THEN "high"
                        ELSE IF score >= policy[rt].medium THEN "medium"
                        ELSE "none"
        IN  (ActiveAlerts(p, rt) = {} /\ rt \notin last'.f.alert) =>
               IF expected = "none" THEN created = {}
               ELSE Cardinality(created) = 1 /\ \A r \in created : r.priority = expected

Checked == last'.op = "process_patient_data" /\ last'.risk = "checked" /\ ~last'.f.thresholds

C24_Step ==
    Checked =>
        IF system_settings = {} THEN TieredBy(BuiltInDefaults)
        ELSE \A stored \in system_settings : TieredBy(stored)

C24_DefaultsOrStoredPolicy == [][C24_Step]_vars

\* without a stored policy a sepsis score of 0.30 has made a medium alert
C24_Witness ==
    /\ system_settings = {}
    /\ last.op = "process_patient_data"
    /\ \E i \in DOMAIN alerts :
          /\ alerts[i].risk_type = "sepsis" /\ alerts[i].risk_score = <<30, 100>>
          /\ alerts[i].priority = "medium"

----------------------------------------------------------------------------
(* C25: the check made next after an update of the stored policy judges    *)
(* the scores by the updated policy.                                       *)

C25_Step ==
    (last.op = "update_alert_thresholds" /\ Checked) =>
        /\ system_settings # {}
        /\ \A stored \in system_settings : TieredBy(stored)

C25_UpdatedPolicyUsedNext == [][C25_Step]_vars

\* after the sepsis thresholds were lowered to 0.5 / 0.2, a score of 0.20 has
\* made a medium alert
C25_Witness ==
    /\ last.op = "process_patient_data"
    /\ \E stored \in system_settings : stored.sepsis = [high |-> 50, medium |-> 20]
    /\ \E i \in DOMAIN alerts :
          /\ alerts[i].risk_type = "sepsis" /\ alerts[i].risk_score = <<20, 100>>
          /\ alerts[i].priority = "medium"

----------------------------------------------------------------------------
(* C26: a cycle of the loop polls snapshots, vitals, labs and medication   *)
(* events in this order, once each, for at most 10, 50, 20 and 10 records, *)
(* and polls a stream only when the batch of the stream before it has been *)
(* handled to its end; so every stream is polled again and again for as    *)
(* long as the loop is not stopped.                                        *)

PollLimit(k) == CASE k = 1 -> 10 [] k = 2 -> 50 [] k = 3 -> 20 [] k = 4 -> 10

C26_Step ==
    /\ (pc = "poll" /\ last'.op = "poll") =>
          /\ batch = <<>>
          /\ Len(batch') <= PollLimit(cur)
          /\ position' = [position EXCEPT ![cur] = @ + Len(batch')]
    /\ (pc' = "poll" /\ pc # "sleep") => cur < 4 /\ cur' = cur + 1 /\ batch' = <<>>
    /\ (pc' = "poll" /\ pc = "sleep") => cur' = 1
    /\ pc' = "sleep" => cur = 4 /\ batch' = <<>>
    /\ pc' = "handle" => cur' = cur /\ batch' # <<>>
    /\ pc = "sleep" => pc' \in {"poll", "stopped"}

----------------------------------------------------------------------------
(* C27: a risk-score block that reaches the check has put one row into     *)
(* risk_scores, and each of deterioration, readmission and sepsis is       *)
(* judged by itself: it gets its alert exactly when its own score crosses  *)
(* its threshold, no active alert of its own pair is recent and its own    *)
(* insert does not fail, whatever happened to the other two.  One block    *)
(* creates at most one alert per risk type, three at most.                 *)

C27_Step ==
    Checked =>
        LET p == last'.msg.patient_id
            ts == last'.timestamp
            block == last'.msg.risk_scores
            created(rt) == {r \in NewAlerts : r.risk_type = rt}
            recent(rt) == {i \in ActiveAlerts(p, rt) : alerts[i].timestamp > ts - 4}
            due(rt) == /\ rt \in DOMAIN InForce
                       /\ Get(block, rt, 0) >= InForce[rt].medium
                       /\ recent(rt) = {}
                       /\ rt \notin last'.f.alert
        IN  /\ Len(risk_scores') = Len(risk_scores) + 1
            /\ risk_scores'[Len(risk_scores')].patient_id = p
            /\ \A r \in NewAlerts : r.patient_id = p /\ r.risk_type \in Range(RiskTypes)
            /\ Len(alerts') - Len(alerts) = Cardinality({rt \in Range(RiskTypes) : due(rt)})
            /\ \A rt \in Range(RiskTypes) :
                  Cardinality(created(rt)) = (IF due(rt) THEN 1 ELSE 0)

C27_RiskTypesIndependent == [][C27_Step]_vars

\* of one block with three crossing scores the deterioration insert failed and
\* the readmission and sepsis alerts were created all the same
C27_Witness ==
    /\ last.op = "process_patient_data" /\ last.risk = "checked"
    /\ last.f.alert = {"deterioration"}
    /\ Len(alerts) = 2
    /\ alerts[1].risk_type = "readmission" /\ alerts[2].risk_type = "sepsis"
    /\ alerts[1].timestamp = last.timestamp /\ alerts[2].timestamp = last.timestamp

----------------------------------------------------------------------------
(* C28: a handler of the processor leaves every alert row it finds as it   *)
(* is, in its place: it only adds rows, and each row it adds has status    *)
(* active and priority high or medium.                                     *)

C28_Step ==
    last'.op \in {"process_patient_data", "process_vitals", "process_labs",
                  "process_medication"} =>
        /\ Len(alerts') >= Len(alerts)
        /\ \A i \in DOMAIN alerts : alerts'[i] = alerts[i]
        /\ \A r \in NewAlerts : r.status = "active" /\ r.priority \in {"high", "medium"}

C28_AlertsAddOnly == [][C28_Step]_vars

\* a sepsis alert and a lab alert of P1 are stored, and a further message of
\* the same kind has been handled since without changing them
C28_Witness ==
    /\ handled = 3
    /\ Len(alerts) = 2
    /\ alerts[1].risk_type = "sepsis" /\ alerts[2].risk_type = "lab_glucose"
    /\ alerts[1].status = "active" /\ alerts[2].status = "active"
    /\ last.op = "process_labs" /\ last.outcome = "ok" /\ ~last.alertFail
    /\ Len(lab_results) = 2

----------------------------------------------------------------------------
(* C29: a lab result is stored as abnormal exactly when its value is below *)
(* normal_min or above normal_max, and a result whose value lies within    *)
(* [normal_min, normal_max], the bounds included, creates no alert.        *)

C29_Step ==
    (/\ last'.op = "process_labs" /\ last'.outcome \in {"ok", "ts_error"}
     /\ {"value", "normal_min", "normal_max"} \subseteq DOMAIN last'.msg) =>
        LET m == last'.msg
            row == lab_results'[Len(lab_results')]
            outside == m.value < m.normal_min \/ m.value > m.normal_max
        IN  /\ Len(lab_results') = Len(lab_results) + 1
            /\ row.is_abnormal = outside
            /\ ~outside => alerts' = alerts

C29_LabAlertOnlyWhenAbnormal == [][C29_Step]_vars

\* Glucose 95 in [70, 99] and WBC 5 in [5, 5] are stored as normal results and
\* no alert exists
C29_Witness ==
    /\ alerts = <<>>
    /\ Len(lab_results) = 2
    /\ lab_results[1].test_name = "Glucose" /\ lab_results[1].value = 95
    /\ lab_results[2].test_name = "WBC" /\ lab_results[2].value = 5
    /\ ~lab_results[1].is_abnormal /\ ~lab_results[2].is_abnormal
    /\ last.outcome = "ok"

----------------------------------------------------------------------------
(* C30: a qualifying lab result is alerted under the risk type lab_<test   *)
(* name in lower case> and suppressed only by a recent active alert of     *)
(* that risk type: results whose test names differ in case only share one  *)
(* alert, results of another test get their own, and lab alerts and        *)
(* deterioration / readmission / sepsis alerts never suppress each other.  *)

LabKey(test_name) ==
    CASE test_name \in {"Glucose", "GLUCOSE", "glucose"} -> "lab_glucose"
      [] test_name \in {"WBC", "wbc"} -> "lab_wbc"

RecentActive(p, rt, ts) == {i \in ActiveAlerts(p, rt) : alerts[i].timestamp > ts - 4}

C30_Step ==
    /\ (/\ last'.op = "process_labs" /\ last'.outcome = "ok" /\ ~last'.alertFail
        /\ {"test_name", "value", "normal_min", "normal_max"} \subseteq DOMAIN last'.msg) =>
           LET m == last'.msg
               dist == IF m.value < m.normal_min THEN m.normal_min - m.value
                       ELSE IF m.value > m.normal_max THEN m.value - m.normal_max ELSE 0
               w == IF m.normal_max = m.normal_min THEN 1 ELSE m.normal_max - m.normal_min
           IN  (dist > 0 /\ 2 * dist >= w) =>
                  /\ Cardinality(NewAlerts) =
                        (IF RecentActive(m.patient_id, LabKey(m.test_name), m.timestamp) = {}
                         THEN 1 ELSE 0)
                  /\ \A r \in NewAlerts : r.risk_type = LabKey(m.test_name)
    /\ Checked =>
           LET p == last'.msg.patient_id
               score == Get(last'.msg.risk_scores, "sepsis", 0)
               created == {r \in NewAlerts : r.risk_type = "sepsis"}
           IN  (score >= InForce.sepsis.medium /\ "sepsis" \notin last'.f.alert) =>
                  Cardinality(created) =
                     (IF RecentActive(p, "sepsis", last'.timestamp) = {} THEN 1 ELSE 0)

C30_LabRiskTypeKey == [][C30_Step]_vars

\* GLUCOSE 130 was handled after Glucose 160 of the same patient: the one
\* lab_glucose alert is that of Glucose 160, next to a sepsis alert
C30_Witness ==
    /\ last.op = "process_labs" /\ last.outcome = "ok" /\ ~last.alertFail
    /\ last.msg.test_name = "GLUCOSE"
    /\ Len(alerts) = 2
    /\ alerts[1].risk_type = "sepsis" /\ alerts[1].patient_id = "P1"
    /\ alerts[2].risk_type = "lab_glucose" /\ alerts[2].message[2] = "Glucose"
    /\ alerts[2].patient_id = "P1"

----------------------------------------------------------------------------
(* C31: duplicate suppression ignores the score: when a risk-score event   *)
(* is checked while an active alert of its (patient_id, risk_type) lies in *)
(* the dedup window, no alert of that pair is created, whatever the tier   *)
(* of the new score, and every alert row already stored keeps its          *)
(* priority and risk_score.                                                *)

C31_Step ==
    Checked =>
        \A rt \in DOMAIN InForce :
            LET p == last'.msg.patient_id
                created == {r \in NewAlerts : r.patient_id = p /\ r.risk_type = rt}
            IN  RecentActive(p, rt, last'.timestamp) # {} =>
                   /\ created = {}
                   /\ Len(alerts') >= Len(alerts)
                   /\ \A i \in ActiveAlerts(p, rt) :
                         /\ alerts'[i].priority = alerts[i].priority
                         /\ alerts'[i].risk_score = alerts[i].risk_score

C31_MagnitudeIgnored == [][C31_Step]_vars

\* a sepsis score of 75, high under the policy in force, was checked while
\* the medium alert of the earlier score of 45 was active in the window:
\* that alert is still the only one, medium, with its score of 45
C31_Witness ==
    /\ last.op = "process_patient_data" /\ last.risk = "checked" /\ last.f = NoFault
    /\ last.msg.patient_id = "P1" /\ last.msg.risk_scores = [sepsis |-> 75]
    /\ InForce.sepsis.high <= 75
    /\ Len(alerts) = 1
    /\ alerts[1].patient_id = "P1" /\ alerts[1].risk_type = "sepsis"
    /\ alerts[1].status = "active" /\ alerts[1].priority = "medium"
    /\ alerts[1].risk_score = <<45, 100>>
    /\ alerts[1].timestamp > last.timestamp - DEDUP_HOURS

----------------------------------------------------------------------------
(* C32: only active alerts suppress: when a risk-score event that reaches  *)
(* a tier is checked and every alert of its (patient_id, risk_type) within *)
(* the 4 hours before it has been acknowledged or dismissed through the    *)
(* gateway, the event creates one new alert, of status active.             *)

\* the alerts of a pair in the window that are no longer active
RecentSettled(p, rt, ts) ==
    {i \in DOMAIN alerts :
        /\ alerts[i].patient_id = p
        /\ alerts[i].risk_type = rt
        /\ alerts[i].status \in {"acknowledged", "dismissed"}
        /\ alerts[i].timestamp > ts - DEDUP_HOURS}

C32_Step ==
    Checked =>
        \A rt \in DOMAIN InForce :
            LET p == last'.msg.patient_id
                ts == last'.timestamp
                score == Get(last'.msg.risk_scores, rt, 0)
                created == {i \in (Len(alerts) + 1)..Len(alerts') :
                              alerts'[i].patient_id = p /\ alerts'[i].risk_type = rt}
            IN  (/\ score >= InForce[rt].medium \/ score >= InForce[rt].high
                 /\ rt \notin last'.f.alert
                 /\ RecentSettled(p, rt, ts) # {}
                 /\ RecentActive(p, rt, ts) = {}) =>
                   /\ Cardinality(created) = 1
                   /\ \A i \in created : alerts'[i].status = "active"
                                         /\ alerts'[i].timestamp = ts

C32_OnlyActiveSuppress == [][C32_Step]_vars

\* the sepsis alert of P1 was acknowledged or dismissed, and the next
\* sepsis event of P1, less than 4 hours later, has its own active alert
C32_Witness ==
    /\ last.op = "process_patient_data" /\ last.risk = "checked"
    /\ Len(alerts) = 2
    /\ \A i \in {1, 2} : alerts[i].patient_id = "P1" /\ alerts[i].risk_type = "sepsis"
    /\ alerts[1].status \in {"acknowledged", "dismissed"}
    /\ alerts[2].status = "active"
    /\ alerts[2].timestamp = last.timestamp
    /\ alerts[1].timestamp > alerts[2].timestamp - DEDUP_HOURS

----------------------------------------------------------------------------
(* C33: the dedup window is the 4 hours before the event's timestamp and   *)
(* nothing else: when a lab result that is due an alert is handled and the *)
(* store answers, an alert is created unless an active alert of the pair   *)
(* has a timestamp in the 4 hours before the result's timestamp; an active *)
(* alert that is more than 4 hours later than the result does not suppress *)
(* it.                                                                     *)

\* the lab step just taken handled a result that is due an alert
LabAlertDue ==
    /\ last'.op = "process_labs" /\ last'.outcome = "ok" /\ ~last'.alertFail
    /\ {"test_name", "value", "normal_min", "normal_max"} \subseteq DOMAIN last'.msg
    /\ IsAbnormal(last'.msg)
    /\ LabPriority(Deviation(last'.msg.value, last'.msg.normal_min,
                             last'.msg.normal_max)) # "none"

C33_Step ==
    LabAlertDue =>
        LET m == last'.msg
            rt == LabKey(m.test_name)
            before == {i \in ActiveAlerts(m.patient_id, rt) :
                         /\ alerts[i].timestamp > m.timestamp - DEDUP_HOURS
                         /\ alerts[i].timestamp <= m.timestamp}
            later == {i \in ActiveAlerts(m.patient_id, rt) :
                        alerts[i].timestamp > m.timestamp + DEDUP_HOURS}
        IN  (before = {} /\ later # {}) => Cardinality(NewAlerts) = 1

C33_WindowBeforeEventOnly == [][C33_Step]_vars

----------------------------------------------------------------------------
(* C34: the comparison at the window boundary is strict: when a lab result *)
(* that is due an alert is handled and the store answers, an active alert  *)
(* of the pair that is less than 4 hours older than the result suppresses  *)
(* it, and an active alert that is exactly 4 hours older does not: with no *)
(* other active alert of the pair after the cutoff, a new alert is         *)
(* created.                                                                *)

C34_Step ==
    LabAlertDue =>
        LET m == last'.msg
            rt == LabKey(m.test_name)
            active == ActiveAlerts(m.patient_id, rt)
            exact == {i \in active : alerts[i].timestamp = m.timestamp - DEDUP_HOURS}
            younger == {i \in active :
                          /\ alerts[i].timestamp > m.timestamp - DEDUP_HOURS
                          /\ alerts[i].timestamp <= m.timestamp}
            after == {i \in active : alerts[i].timestamp > m.timestamp}
        IN  /\ younger # {} => NewAlerts = {}
            /\ (exact # {} /\ younger = {} /\ after = {}) =>
                  /\ Cardinality(NewAlerts) = 1
                  /\ \A r \in NewAlerts : r.timestamp = m.timestamp /\ r.risk_type = rt

C34_StrictBoundary == [][C34_Step]_vars

\* the glucose result of hour 4 has its own alert next to the active alert
\* of the result of hour 0, exactly 4 hours older
C34_Witness ==
    /\ last.op = "process_labs" /\ last.outcome = "ok" /\ last.msg.timestamp = 4
    /\ Len(alerts) = 2
    /\ \A i \in {1, 2} : /\ alerts[i].patient_id = "P1"
                         /\ alerts[i].risk_type = "lab_glucose"
                         /\ alerts[i].status = "active"
    /\ alerts[1].timestamp = 0
    /\ alerts[2].timestamp = alerts[1].timestamp + DEDUP_HOURS

----------------------------------------------------------------------------
(* C35: the relational store is written first: every vitals, labs and      *)
(* risk_scores point of the time-series store has a relational row of the  *)
(* same patient, time and values, in every reachable state, and a handler  *)
(* whose relational insert fails leaves the relational table and the       *)
(* time-series store as they were.                                         *)

C35_EveryPointHasRow ==
    \A q \in influx :
        /\ q.measurement = "vitals" =>
              \E i \in DOMAIN vitals :
                  /\ vitals[i].patient_id = q.tags.patient_id
                  /\ vitals[i].timestamp = q.time
                  /\ vitals[i].heart_rate = q.fields.heart_rate
        /\ q.measurement = "labs" =>
              \E i \in DOMAIN lab_results :
                  /\ lab_results[i].patient_id = q.tags.patient_id
                  /\ lab_results[i].timestamp = q.time
                  /\ lab_results[i].test_name = q.tags.test_name
                  /\ lab_results[i].value = q.fields.value
        /\ q.measurement = "risk_scores" =>
              \E i \in DOMAIN risk_scores :
                  /\ risk_scores[i].patient_id = q.tags.patient_id
                  /\ risk_scores[i].timestamp = q.time
                  /\ risk_scores[i].sepsis_risk = q.fields.sepsis

C35_Step ==
    /\ (last'.op \in {"process_vitals", "process_labs"} /\ last'.outcome = "db_error") =>
           /\ vitals' = vitals
           /\ lab_results' = lab_results
           /\ influx' = influx
    /\ (last'.op = "process_patient_data" /\ last'.risk = "db_error") =>
           /\ risk_scores' = risk_scores
           /\ influx' = influx

C35_RelationalFirst == []C35_EveryPointHasRow /\ [][C35_Step]_vars

\* a vitals sample and a lab result are in both stores, and the risk scores
\* whose relational insert failed are in neither
C35_Witness ==
    /\ last.op = "process_patient_data" /\ last.risk = "db_error"
    /\ risk_scores = <<>>
    /\ Len(vitals) = 1 /\ Len(lab_results) = 1
    /\ {q.measurement : q \in influx} = {"vitals", "labs"}

----------------------------------------------------------------------------
(* C36: the dedup query and the insert of generate_alert are one atomic    *)
(* step towards other writers: with two processor instances handling       *)
(* events of the same (patient_id, risk_type) whose timestamps are less    *)
(* than 4 hours apart, at most one alert row of the pair is inserted.      *)

C36_AtomicDedup ==
    \A i, j \in DOMAIN alerts :
        (/\ i < j
         /\ alerts[i].patient_id = alerts[j].patient_id
         /\ alerts[i].risk_type = alerts[j].risk_type) =>
            \/ alerts[j].timestamp - alerts[i].timestamp >= DEDUP_HOURS
            \/ alerts[i].timestamp - alerts[j].timestamp >= DEDUP_HOURS

----------------------------------------------------------------------------
(* C37: set replacement is all-or-nothing: when a store error meets        *)
(* process_diagnoses, process_comorbidities or process_all_medications,    *)
(* the table is left as it was, and after every snapshot the patient's     *)
(* stored diagnoses, comorbidities and active medications are either those *)
(* of before or those of the message's list, never none or a part.         *)

C37_Step ==
    (last'.op = "process_patient_data" /\ ~last'.skipped) =>
        LET m == last'.msg
            p == m.patient_id
            f == last'.f
            diagnosesAfter == {r.diagnosis : r \in {x \in diagnoses' : x.patient_id = p}}
            comorbiditiesAfter ==
                {r.condition : r \in {x \in comorbidities' : x.patient_id = p}}
            activeBefore == {Entry(medications[i]) : i \in
                               {k \in DOMAIN medications :
                                   /\ medications[k].patient_id = p
                                   /\ medications[k].end_date = NULL}}
            activeAfter == {Entry(medications'[i]) : i \in
                              {k \in DOMAIN medications' :
                                  /\ medications'[k].patient_id = p
                                  /\ medications'[k].end_date = NULL}}
        IN  /\ f.diagnoses => diagnoses' = diagnoses
            /\ f.comorbidities => comorbidities' = comorbidities
            /\ f.medications => medications' = medications
            /\ "diagnoses" \in DOMAIN m =>
                  diagnosesAfter \in {StoredDiagnoses(p), Range(m.diagnoses)}
            /\ "comorbidities" \in DOMAIN m =>
                  comorbiditiesAfter \in {StoredComorbidities(p), Range(m.comorbidities)}
            /\ "medications" \in DOMAIN m =>
                  activeAfter \in {activeBefore,
                                   {Entry(m.medications[j]) : j \in DOMAIN m.medications}}

C37_ReplacementAllOrNothing == [][C37_Step]_vars

\* the insert of a new diagnosis list of P1 met a store error, and the
\* diagnoses stored for P1 before, another set, are still there
C37_Witness ==
    /\ last.op = "process_patient_data" /\ last.f.diagnoses
    /\ last.msg.patient_id = "P1"
    /\ StoredDiagnoses("P1") # {}
    /\ StoredDiagnoses("P1") # Range(last.msg.diagnoses)

----------------------------------------------------------------------------
(* C38: a medication event whose action tag is none of add, discontinue,   *)
(* change_dose is rejected as a whole: handling it changes no medication   *)
(* record and writes no point to the time-series store.                    *)

C38_Step ==
    (/\ last'.op = "process_medication"
     /\ Get(last'.msg, "action", None) \notin {"add", "discontinue", "change_dose"}) =>
        /\ medications' = medications
        /\ influx' = influx

C38_UnknownActionRejected == [][C38_Step]_vars

====
